---- MODULE Spec2Model ----
(***************************************************************************)
(* A model of the JEDI protocol client library (ucbrise/jedi-protocol-go): *)
(* URI and time paths, patterns, the default pattern encoder, the          *)
(* delegation builder and the ClientState encrypt / decrypt engine with    *)
(* its cache of encryption and decryption entries.                         *)
(*                                                                         *)
(* Byte strings are sequences of naturals below 256.  A nil or empty Go    *)
(* slice is the empty sequence.  An operation that faults at run time (a   *)
(* Go panic) returns a record with panic |-> TRUE.                         *)
(***************************************************************************)
EXTENDS Integers, Sequences, FiniteSets, TLC

VARIABLES
    uriIn,      \* the URI string handed to ParseURI (a sequence of characters)
    uriRes,     \* what checkURI computed from it, or NoResult
    trIn,       \* the (start, end) timestamps handed to TimeRange, or NoInput
    trRes,      \* what TimeRange returned for them, or NoResult
    dgIn,       \* the arguments of Delegate, or NoInput
    dgRes,      \* what Delegate returned, or NoResult
    dgTm,       \* helperTestDelegation: the hour tm of its loop, or NoInput
    dgFail,     \* helperTestDelegation: whether t.Fail() was called
    cache,      \* ClientState.cache: its entries, least recently used first
    heap,       \* the encryption / decryption cache entries ever allocated
    encaps,     \* the calls of wkdibe.EncryptPrepared made so far, in order
    sent,       \* the outputs of Encrypt so far, in order
    calls,      \* how often the params reader and the key store were called
    pc,         \* per thread: where it stands in its Encrypt / Decrypt call
    op,         \* per thread: the arguments of its call
    loc         \* per thread: the locals of its call and its return value

uvars == <<uriIn, uriRes>>
tvars == <<trIn, trRes>>
dvars == <<dgIn, dgRes, dgTm, dgFail>>
cvars == <<cache, heap, encaps, sent, calls, pc, op, loc>>
vars == <<uriIn, uriRes, trIn, trRes, dgIn, dgRes, dgTm, dgFail,
          cache, heap, encaps, sent, calls, pc, op, loc>>

NoInput == [none |-> TRUE]

NoResult == [done |-> FALSE]

(***************************************************************************)
(* Bytes and characters                                                    *)
(***************************************************************************)
ByteMod == 256

Chars == {"a", "b", "c", "d", "/", "+", "*", "$"}

ByteOf(ch) ==
    CASE ch = "a" -> 97
      [] ch = "b" -> 98
      [] ch = "c" -> 99
      [] ch = "d" -> 100
      [] ch = "/" -> 47
      [] ch = "+" -> 43
      [] ch = "*" -> 42
      [] ch = "$" -> 36

CharOf(b) ==
    IF \E ch \in Chars : ByteOf(ch) = b
    THEN CHOOSE ch \in Chars : ByteOf(ch) = b
    ELSE "?"

StrBytes(s) == [i \in 1..Len(s) |-> ByteOf(s[i])]

BytesStr(bs) == [i \in 1..Len(bs) |-> CharOf(bs[i])]

\* Concatenation of seqs[lo..hi], halving the range (the recursion stays shallow
\* on long inputs).
RECURSIVE ConcatRange(_, _, _)
ConcatRange(seqs, lo, hi) ==
    IF lo > hi THEN << >>
    ELSE IF lo = hi THEN seqs[lo]
    ELSE LET mid == (lo + hi) \div 2
         IN  ConcatRange(seqs, lo, mid) \o ConcatRange(seqs, mid + 1, hi)

Concat(seqs) == ConcatRange(seqs, 1, Len(seqs))

\* The pieces of s[lo..hi] between occurrences of sep (always at least one
\* piece; pieces may be empty), as strings.Split and the scan of URIFromBytes
\* cut them.
RECURSIVE SplitRange(_, _, _, _)
SplitRange(s, sep, lo, hi) ==
    IF lo > hi THEN << << >> >>
    ELSE IF lo = hi THEN (IF s[lo] = sep THEN << << >>, << >> >> ELSE << <<s[lo]>> >>)
    ELSE LET mid == (lo + hi) \div 2
             l == SplitRange(s, sep, lo, mid)
             r == SplitRange(s, sep, mid + 1, hi)
         IN  SubSeq(l, 1, Len(l) - 1) \o <<l[Len(l)] \o r[1]>> \o Tail(r)

SplitOn(s, sep) == SplitRange(s, sep, 1, Len(s))

(***************************************************************************)
(* URI paths                                                               *)
(***************************************************************************)
EndOfURISymbol == "$"

TerminatorByte == 255

NewURIComponent(name, position) == <<position % ByteMod>> \o StrBytes(name)

URIComponentName(uc) == BytesStr(SubSeq(uc, 2, Len(uc)))

URIComponentString(uc) == IF Len(uc) = 0 THEN <<"+">> ELSE URIComponentName(uc)

\* ValidateURIComponent letting every name through.
ValidateURIComponent_Any(name) == TRUE

ValidateURIComponent(name) ==
    ~ (Len(name) = 0 \/ (Len(name) = 1 /\ name[1] = EndOfURISymbol))

\* strings.Split(s, "/")
Split(s) == SplitOn(s, "/")

\* strings.Join(parts, "/")
Join(parts) ==
    Concat([i \in 1..Len(parts) |->
               IF i = 1 THEN parts[i] ELSE <<"/">> \o parts[i]])

FilterEmpty(parts) == SelectSeq(parts, LAMBDA p : Len(p) # 0)

\* The component stored for segment i (0-based), for a valid non-'*' segment.
SegmentComponent(name, i) ==
    IF name = <<"+">> THEN << >> ELSE NewURIComponent(name, i)

ParseURIFromPath(uriPath) ==
    LET n == Len(uriPath)
        bad(i) == \/ ~ ValidateURIComponent(uriPath[i])
                  \/ (uriPath[i] = <<"*">> /\ i # n)
        prefix == n > 0 /\ uriPath[n] = <<"*">>
        kept == IF prefix THEN n - 1 ELSE n
        comps == [i \in 1..kept |-> SegmentComponent(uriPath[i], i - 1)]
    IN  IF \E i \in 1..n : bad(i)
        THEN [err |-> TRUE, path |-> << >>]
        ELSE [err |-> FALSE,
              path |-> IF prefix THEN comps
                       ELSE Append(comps, NewURIComponent(<<EndOfURISymbol>>, n))]

ParseURI(uri) == ParseURIFromPath(FilterEmpty(Split(uri)))

URIPathString(up) ==
    IF Len(up) = 0
    THEN [panic |-> TRUE, str |-> << >>]
    ELSE LET components == [i \in 1..Len(up) |-> URIComponentString(up[i])]
             last == components[Len(up)]
         IN  [panic |-> FALSE,
              str |-> IF last = <<"$">>
                      THEN Join(SubSeq(components, 1, Len(up) - 1))
                      ELSE Join(Append(components, <<"*">>))]

\* URIToBytes writing nothing at all for a free component.
URIToBytes_SkipFree(up) ==
    <<Len(up) % ByteMod>>
        \o Concat([i \in 1..Len(up) |->
                      IF Len(up[i]) = 0 THEN << >> ELSE Append(up[i], TerminatorByte)])

URIToBytes(up) ==
    <<Len(up) % ByteMod>>
        \o Concat([i \in 1..Len(up) |-> Append(up[i], TerminatorByte)])

\* URIFromBytes scans marshalled[1:] for terminators: the bytes between two
\* terminators are the next component (nil when empty), the bytes after the last
\* terminator are dropped, and a component past the declared count indexes the
\* slice out of range.
URIFromBytes(marshalled) ==
    IF Len(marshalled) = 0 THEN [panic |-> TRUE, path |-> << >>]
    ELSE LET num == marshalled[1]
             pieces == SplitRange(marshalled, TerminatorByte, 2, Len(marshalled))
             found == Len(pieces) - 1
         IN  IF found > num
             THEN [panic |-> TRUE, path |-> << >>]
             ELSE [panic |-> FALSE,
                   path |-> [k \in 1..num |->
                                IF k <= found THEN pieces[k] ELSE << >>]]


(***************************************************************************)
(* Time paths                                                              *)
(***************************************************************************)
MaxTimeLength == 6

TimeComponentPositionYear == 0
TimeComponentPositionMonth == 1
TimeComponentPositionFiveDays == 2
TimeComponentPositionDay == 3
TimeComponentPositionSixHours == 4
TimeComponentPositionHour == 5

MinYear == 2015
MaxYear == 2050
MinMonth == 1
MaxMonth == 12
MinFiveDays == 1
MaxFiveDays == 6
MinDay == 1
MaxDay == 31
MaxDayShortMonth == 30
MaxDayFebruary == 28
MaxDayFebruaryLeapYear == 29
MinSixHours == 1
MaxSixHours == 4
MinHour == 0
MaxHour == 23

Uint16Mod == 65536

\* A time component: position byte, then the quantity as 16 bits little-endian.
NewTimeComponent(quantity, position) ==
    <<position % ByteMod, quantity % ByteMod, (quantity \div ByteMod) % ByteMod>>

Quantity(tc) == tc[2] + ByteMod * tc[3]

\* TimeComponentBounds without its leap-year case: February always ends on
\* the 28th.
BoundsLeapYear_Never(year) == FALSE

BoundsLeapYear(year) ==
    year % 4 = 0 /\ (year % 100 # 0 \/ year % 400 = 0)

\* The hour bounds with the upper one a hour too far (6 * sixhours).
HourBounds_OpenEnd(sixhours) ==
    <<(6 * (sixhours - 1)) % Uint16Mod, (6 * sixhours) % Uint16Mod>>

\* The hours of a six-hour period: 6 * (sixhours - 1) .. 6 * sixhours - 1.
HourBounds(sixhours) ==
    <<(6 * (sixhours - 1)) % Uint16Mod, (6 * sixhours - 1) % Uint16Mod>>

\* TimeComponentBounds: <<min, max>> of the component at a position, given the
\* components before it (prefix is a TimePath, indexed from 1 here).
TimeComponentBounds(prefix, position) ==
    CASE position = TimeComponentPositionYear -> <<MinYear, MaxYear>>
      [] position = TimeComponentPositionMonth -> <<MinMonth, MaxMonth>>
      [] position = TimeComponentPositionFiveDays -> <<MinFiveDays, MaxFiveDays>>
      [] position = TimeComponentPositionDay ->
            LET fivedays == Quantity(prefix[TimeComponentPositionFiveDays + 1])
                month == Quantity(prefix[TimeComponentPositionMonth + 1])
                year == Quantity(prefix[TimeComponentPositionYear + 1])
            IN  IF fivedays = 6 /\ month \in {1, 3, 5, 7, 8, 10, 12}
                THEN <<26, MaxDay>>
                ELSE IF fivedays = 6 /\ month \in {4, 6, 9, 11}
                THEN <<26, MaxDayShortMonth>>
                ELSE IF fivedays = 6 /\ month = 2
                THEN (IF BoundsLeapYear(year)
                      THEN <<26, MaxDayFebruaryLeapYear>>
                      ELSE <<26, MaxDayFebruary>>)
                ELSE <<(5 * (fivedays - 1) + 1) % Uint16Mod,
                       (5 * fivedays) % Uint16Mod>>
      [] position = TimeComponentPositionSixHours -> <<MinSixHours, MaxSixHours>>
      [] position = TimeComponentPositionHour ->
            LET sixhours == Quantity(prefix[TimeComponentPositionSixHours + 1])
            IN  HourBounds(sixhours)

ValidateTimeComponent(prefix, quantity, position) ==
    LET b == TimeComponentBounds(prefix, position)
    IN  b[1] <= quantity /\ quantity <= b[2]

\* ParseTimeFromPath: the components of the quantities, or an error at the
\* first quantity outside its bounds.
RECURSIVE ParseTimeFromPathLoop(_, _, _)
ParseTimeFromPathLoop(timePath, i, components) ==
    IF i > Len(timePath) THEN [err |-> FALSE, path |-> components]
    ELSE IF ~ ValidateTimeComponent(components, timePath[i], i - 1)
    THEN [err |-> TRUE, path |-> << >>]
    ELSE ParseTimeFromPathLoop(timePath, i + 1,
             Append(components, NewTimeComponent(timePath[i], i - 1)))

ParseTimeFromPath(timePath) ==
    IF Len(timePath) > MaxTimeLength
    THEN [err |-> TRUE, path |-> << >>]
    ELSE ParseTimeFromPathLoop(timePath, 1, << >>)

\* A timestamp is its UTC calendar reading [y, mo, d, h, mi].
ParseTime(t) ==
    LET year == t.y % Uint16Mod
        month == t.mo
        day == t.d
        fd == (day - 1) \div 5 + 1
        fivedays == IF fd = 7 THEN 6 ELSE fd
        hour == t.h
        sixhours == (hour \div 6) + 1
    IN  ParseTimeFromPath(<<year, month, fivedays, day, sixhours, hour>>)

Quantities(tp) == [i \in 1..Len(tp) |-> Quantity(tp[i])]

(***************************************************************************)
(* TimeRange: the minimal covering set of time paths of a closed interval  *)
(* (design section 4.2).  A node of the time hierarchy is emitted when    *)
(* the interval covers it whole, and is descended into otherwise.          *)
(***************************************************************************)
\* Whether the components of tq after the first n are all at the lower
\* (side = 1) or upper (side = 2) bound TimeComponentBounds gives them.
AtBound(tq, n, side) ==
    \A k \in (n + 1)..MaxTimeLength :
        tq[k] = TimeComponentBounds(
                    [j \in 1..(k - 1) |-> NewTimeComponent(tq[j], j - 1)],
                    k - 1)[side]

\* The paths covering the part of the node prefix (a sequence of quantities)
\* that lies in [startq, endq]; onLo / onHi say whether the node contains the
\* start / the end of the interval.
RECURSIVE RangeNode(_, _, _, _, _)
RangeNode(prefix, startq, endq, onLo, onHi) ==
    LET n == Len(prefix)
        whole == /\ (onLo => AtBound(startq, n, 1))
                 /\ (onHi => AtBound(endq, n, 2))
    IN  IF whole
        THEN << [i \in 1..n |-> NewTimeComponent(prefix[i], i - 1)] >>
        ELSE LET b == TimeComponentBounds(
                          [i \in 1..n |-> NewTimeComponent(prefix[i], i - 1)], n)
                 from == IF onLo THEN startq[n + 1] ELSE b[1]
                 to == IF onHi THEN endq[n + 1] ELSE b[2]
             IN  Concat([k \in 1..(to - from + 1) |->
                     RangeNode(Append(prefix, from + k - 1), startq, endq,
                               onLo /\ k = 1,
                               onHi /\ from + k - 1 = to)])

\* Timestamps in chronological order.
TimeKey(t) == <<t.y, t.mo, t.d, t.h, t.mi>>

Before(a, b) ==
    \E i \in 1..5 :
        /\ TimeKey(a)[i] < TimeKey(b)[i]
        /\ \A j \in 1..(i - 1) : TimeKey(a)[j] = TimeKey(b)[j]

TimeRange(start, end) ==
    LET sp == ParseTime(start)
        ep == ParseTime(end)
    IN  IF Before(end, start) \/ sp.err \/ ep.err
        THEN [err |-> TRUE, paths |-> << >>]
        ELSE [err |-> FALSE,
              paths |-> RangeNode(<< >>, Quantities(sp.path),
                                  Quantities(ep.path), TRUE, TRUE)]

(***************************************************************************)
(* The calendar (Go's time package): what hours a time path stands for.    *)
(***************************************************************************)
IsLeapYear(y) == y % 4 = 0 /\ (y % 100 # 0 \/ y % 400 = 0)

DaysInMonth(y, mo) ==
    IF mo = 2 THEN (IF IsLeapYear(y) THEN 29 ELSE 28)
    ELSE IF mo \in {4, 6, 9, 11} THEN 30 ELSE 31

\* The number of leap years up to and including year y.
LeapYearsThrough(y) == (y \div 4) - (y \div 100) + (y \div 400)

DaysBeforeYear(y) ==
    365 * (y - MinYear) + LeapYearsThrough(y - 1) - LeapYearsThrough(MinYear - 1)

RECURSIVE DaysBeforeMonth(_, _)
DaysBeforeMonth(y, mo) ==
    IF mo <= 1 THEN 0 ELSE DaysBeforeMonth(y, mo - 1) + DaysInMonth(y, mo - 1)

\* Hours since the start of MinYear.
HourIndex(y, mo, d, h) ==
    (DaysBeforeYear(y) + DaysBeforeMonth(y, mo) + (d - 1)) * 24 + h

FloorHour(t) == HourIndex(t.y, t.mo, t.d, t.h)

\* The first and last day of the month a path of quantities q stands for
\* (0 and -1 when it names a day outside its five-day period or month).
PathDays(q) ==
    LET y == q[1]
        mo == q[2]
        dim == DaysInMonth(y, mo)
        lo5 == 5 * (q[3] - 1) + 1
        hi5 == IF q[3] = 6 THEN dim ELSE 5 * q[3]
    IN  IF Len(q) = 2 THEN <<1, dim>>
        ELSE IF Len(q) = 3 THEN <<lo5, hi5>>
        ELSE IF lo5 <= q[4] /\ q[4] <= hi5 THEN <<q[4], q[4]>>
        ELSE <<0, -1>>

PathHours(q) ==
    IF Len(q) <= 4 THEN <<0, 23>>
    ELSE IF Len(q) = 5 THEN <<6 * (q[5] - 1), 6 * q[5] - 1>>
    ELSE IF 6 * (q[5] - 1) <= q[6] /\ q[6] <= 6 * q[5] - 1 THEN <<q[6], q[6]>>
    ELSE <<0, -1>>

\* The first and the last hour (as HourIndex) whose time path starts with tp.
FirstHour(tp) ==
    LET q == Quantities(tp)
    IN  IF Len(q) = 0 THEN HourIndex(MinYear, 1, 1, 0)
        ELSE IF Len(q) = 1 THEN HourIndex(q[1], 1, 1, 0)
        ELSE HourIndex(q[1], q[2], PathDays(q)[1], PathHours(q)[1])

LastHour(tp) ==
    LET q == Quantities(tp)
    IN  IF Len(q) = 0 THEN HourIndex(MaxYear, 12, 31, 23)
        ELSE IF Len(q) = 1 THEN HourIndex(q[1], 12, 31, 23)
        ELSE HourIndex(q[1], q[2], PathDays(q)[2], PathHours(q)[2])

(***************************************************************************)
(* TimeRange applied to sampled intervals                                  *)
(***************************************************************************)
YearSpan == 2

SampleYears == (MinYear..(MinYear + YearSpan)) \cup {MaxYear}

SampleMonths == {1, 2, 12}

SampleHours == {0, 6, 23}

SampleTimes ==
    {[y |-> y, mo |-> mo, d |-> d, h |-> h, mi |-> mi] :
        y \in SampleYears, mo \in SampleMonths, d \in {1, 28, 29, 31},
        h \in SampleHours, mi \in {0, 30}}

ValidTime(t) == t.d <= DaysInMonth(t.y, t.mo) /\ (t.mi = 30 => t.h = 6)

Timestamps == {t \in SampleTimes : ValidTime(t)}

IdleTime == trIn = NoInput /\ trRes = NoResult

IdleURI == uriIn = << >> /\ uriRes = NoResult

IdleDelegate ==
    dgIn = NoInput /\ dgRes = NoResult /\ dgTm = NoInput /\ dgFail = FALSE

IdleClient ==
    /\ cache = << >> /\ heap = << >> /\ encaps = << >> /\ sent = << >>
    /\ calls = << >> /\ pc = << >> /\ op = << >> /\ loc = << >>

InitTime ==
    /\ trIn \in [start : Timestamps, end : Timestamps]
    /\ trRes = NoResult
    /\ IdleURI /\ IdleDelegate /\ IdleClient

TimeRangeStep ==
    /\ trIn # NoInput
    /\ ~ trRes.done
    /\ trRes' = [done |-> TRUE] @@ TimeRange(trIn.start, trIn.end)
    /\ UNCHANGED <<trIn, uvars, dvars, cvars>>

NextTime == TimeRangeStep

SpecTime == InitTime /\ [][NextTime]_vars

(***************************************************************************)
(* checkURI: parse a URI string, marshal and unmarshal the path, print it. *)
(***************************************************************************)
MaxURIChars == 4

URIAlphabet == {"a", "/", "+", "*", "$"}

ShortURIs == UNION {[1..n -> URIAlphabet] : n \in 0..MaxURIChars}

\* "a/a/.../a" with n segments: URIs long enough to reach the one-byte
\* component count and position.
Repeated(n) == [i \in 1..(2 * n - 1) |-> IF i % 2 = 1 THEN "a" ELSE "/"]

LongURISegments == {254, 255, 256}

LongURIs == {Repeated(n) : n \in LongURISegments}
                \cup {Repeated(n) \o <<"/", "*">> : n \in LongURISegments}

URIStrings == ShortURIs \cup LongURIs

checkURI(uri) ==
    LET parsed == ParseURI(uri)
    IN  IF parsed.err
        THEN [done |-> TRUE, err |-> TRUE]
        ELSE [done |-> TRUE, err |-> FALSE,
              path |-> parsed.path,
              str |-> URIPathString(parsed.path),
              back |-> URIFromBytes(URIToBytes(parsed.path))]

InitURI ==
    /\ uriIn \in URIStrings
    /\ uriRes = NoResult
    /\ IdleTime /\ IdleDelegate /\ IdleClient

CheckURIStep ==
    /\ ~ uriRes.done
    /\ uriRes' = checkURI(uriIn)
    /\ UNCHANGED <<uriIn, tvars, dvars, cvars>>

NextURI == CheckURIStep

SpecURI == InitURI /\ [][NextURI]_vars

(***************************************************************************)
(* Properties of URI printing and marshalling (under SpecURI)              *)
(***************************************************************************)
\* The URI strings the round-trip laws speak of: non-empty segments joined by
\* '/', none equal to "$", "*" only as the final segment.
WellFormedURI(uri) ==
    LET segs == Split(uri)
    IN  \A i \in 1..Len(segs) :
            /\ Len(segs[i]) # 0
            /\ segs[i] # <<"$">>
            /\ (segs[i] = <<"*">> => i = Len(segs))

\* C9 (as claimed): for every well-formed URI string, ParseURI succeeds and
\* ParseURI(uri).String() returns exactly the string.
C9_StringRoundTrip ==
    (uriRes.done /\ WellFormedURI(uriIn)) =>
        /\ ~ uriRes.err
        /\ ~ uriRes.str.panic
        /\ uriRes.str.str = uriIn

\* C10 (as claimed): for every URIPath produced by ParseURI,
\* URIFromBytes(URIToBytes(up)) has as many components as up, each byte-equal
\* to the original, free components remaining free.
C10_MarshalRoundTrip ==
    (uriRes.done /\ ~ uriRes.err) =>
        /\ ~ uriRes.back.panic
        /\ Len(uriRes.back.path) = Len(uriRes.path)
        /\ \A i \in 1..Len(uriRes.path) : uriRes.back.path[i] = uriRes.path[i]

\* C10 (amended): the same round trip for every URIPath of at most 255
\* components produced by ParseURI.
C10_MarshalRoundTripTo255 ==
    (uriRes.done /\ ~ uriRes.err /\ Len(uriRes.path) < ByteMod) =>
        /\ ~ uriRes.back.panic
        /\ Len(uriRes.back.path) = Len(uriRes.path)
        /\ \A i \in 1..Len(uriRes.path) : uriRes.back.path[i] = uriRes.path[i]

\* A path with a free and a bound component has been marshalled and read back.
C10_Witness ==
    /\ uriRes.done /\ ~ uriRes.err
    /\ Len(uriRes.path) >= 2
    /\ \E i \in 1..Len(uriRes.path) : uriRes.path[i] = << >>
    /\ \E i \in 1..Len(uriRes.path) : Len(uriRes.path[i]) > 1
    /\ ~ uriRes.back.panic

(***************************************************************************)
(* Properties of TimeRange (under SpecTime)                                *)
(***************************************************************************)
RangeDone == trIn # NoInput /\ trRes.done

ParentPath(tp) == SubSeq(tp, 1, Len(tp) - 1)

\* The paths of the result that hold an hour of year y.
PathsInYear(y) ==
    {i \in 1..Len(trRes.paths) :
        \/ Len(trRes.paths[i]) = 0
        \/ Len(trRes.paths[i]) >= 1 /\ Quantity(trRes.paths[i][1]) = y}

\* C7: for start <= end within the supported years, TimeRange returns a
\* non-empty sequence of paths whose hour sets are, in output order, disjoint,
\* chronological and adjacent, starting at floor_hour(start) and ending at
\* floor_hour(end): their union is exactly that interval of hours.
C7_ExactCover ==
    (RangeDone /\ ~ Before(trIn.end, trIn.start)) =>
        /\ ~ trRes.err
        /\ Len(trRes.paths) >= 1
        /\ FirstHour(trRes.paths[1]) = FloorHour(trIn.start)
        /\ LastHour(trRes.paths[Len(trRes.paths)]) = FloorHour(trIn.end)
        /\ \A i \in 1..Len(trRes.paths) :
               FirstHour(trRes.paths[i]) <= LastHour(trRes.paths[i])
        /\ \A i \in 1..(Len(trRes.paths) - 1) :
               FirstHour(trRes.paths[i + 1]) = LastHour(trRes.paths[i]) + 1

\* An interval over a leap-day February and a year boundary has been covered
\* by paths of several lengths.
C7_Witness ==
    /\ RangeDone /\ ~ trRes.err
    /\ trIn.start.y = 2016 /\ trIn.start.mo = 2 /\ trIn.start.d = 28
    /\ trIn.end.y = MaxYear
    /\ \E i \in 1..Len(trRes.paths) : Len(trRes.paths[i]) = 1
    /\ \E i \in 1..Len(trRes.paths) : Len(trRes.paths[i]) = MaxTimeLength
    /\ \E i \in 1..Len(trRes.paths) : Quantities(trRes.paths[i]) = <<2016, 2, 6, 29>>

\* No path of the result can be replaced by its parent prefix without
\* covering an hour outside [start, end].
NoParentFits ==
    \A i \in 1..Len(trRes.paths) :
        Len(trRes.paths[i]) >= 1 =>
            \/ FirstHour(ParentPath(trRes.paths[i])) < FloorHour(trIn.start)
            \/ LastHour(ParentPath(trRes.paths[i])) > FloorHour(trIn.end)

\* A single-hour interval yields exactly one six-component path.
SingleHourOnePath ==
    FloorHour(trIn.start) = FloorHour(trIn.end) =>
        Len(trRes.paths) = 1 /\ Len(trRes.paths[1]) = MaxTimeLength

\* An interval that is one whole day yields exactly one four-component path.
FullDayOnePath ==
    (/\ trIn.start.y = trIn.end.y /\ trIn.start.mo = trIn.end.mo
     /\ trIn.start.d = trIn.end.d
     /\ trIn.start.h = MinHour /\ trIn.end.h = MaxHour) =>
        Len(trRes.paths) = 1 /\ Len(trRes.paths[1]) = 4

\* A year strictly between the start's and the end's year is covered by
\* exactly one path, of one component.
InteriorYearOnePath ==
    \A y \in (trIn.start.y + 1)..(trIn.end.y - 1) :
        /\ Cardinality(PathsInYear(y)) = 1
        /\ \A i \in PathsInYear(y) : Quantities(trRes.paths[i]) = <<y>>

WholeSupportedRange ==
    /\ FloorHour(trIn.start) = HourIndex(MinYear, 1, 1, 0)
    /\ FloorHour(trIn.end) = HourIndex(MaxYear, 12, 31, 23)

\* C8 (as claimed): the output of TimeRange is minimal (no path can be
\* replaced by its parent without overshooting), a single-hour interval gives
\* one six-component path, a full day one four-component path, and every
\* fully covered interior year one one-component path.
C8_Minimal ==
    (RangeDone /\ ~ trRes.err) =>
        /\ NoParentFits
        /\ SingleHourOnePath
        /\ FullDayOnePath
        /\ InteriorYearOnePath

\* C8 (amended): as claimed, but an interior year gives its one-component
\* path only when the interval is not the whole supported range of years.
C8_MinimalBelowRoot ==
    (RangeDone /\ ~ trRes.err) =>
        /\ NoParentFits
        /\ SingleHourOnePath
        /\ FullDayOnePath
        /\ (~ WholeSupportedRange => InteriorYearOnePath)

\* An interval with an interior year, ending inside a day, has been covered.
C8_Witness ==
    /\ RangeDone /\ ~ trRes.err
    /\ trIn.start.y = MinYear /\ trIn.end.y = MinYear + 2
    /\ \E i \in 1..Len(trRes.paths) : Quantities(trRes.paths[i]) = <<MinYear + 1>>
    /\ \E i \in 1..Len(trRes.paths) : Len(trRes.paths[i]) = MaxTimeLength
    /\ \E i \in 1..Len(trRes.paths) : Len(trRes.paths[i]) = 4

(***************************************************************************)
(* Patterns and the default pattern encoder                                *)
(***************************************************************************)
PatternTypeDecryption == 0
PatternTypeSigning == 1

decryptionDefaultPatternComponentPrefix == 0
signingDefaultPatternComponentPrefix == 1

\* Pattern.Equals
Equals(p, q) ==
    /\ Len(p) = Len(q)
    /\ \A i \in 1..Len(p) : p[i] = q[i]

\* Pattern.Matches demanding equal slots everywhere, free or not.
Matches_Exact(p, q) ==
    [panic |-> Len(p) # Len(q),
     ok |-> Len(p) = Len(q) /\ \A i \in 1..Len(p) : p[i] = q[i]]

\* Pattern.Matches: every slot of p is free or holds what q holds there; it
\* panics on patterns of different lengths.
Matches(p, q) ==
    [panic |-> Len(p) # Len(q),
     ok |-> /\ Len(p) = Len(q)
            /\ \A i \in 1..Len(p) : Len(p[i]) # 0 => p[i] = q[i]]

\* Pattern.ToAttrs: the slots that are not free, each with the hash of its
\* bytes (HashToZp is injective here: a hash stands for the bytes hashed).
ToAttrs(p) == [i \in {j \in 1..Len(p) : Len(p[j]) # 0} |-> p[i]]

EncodeURIPathInto(up, into) ==
    [i \in 1..Len(into) |-> IF i <= Len(up) THEN up[i] ELSE << >>]

EncodeTimePathInto(tp, into) ==
    [i \in 1..Len(into) |-> IF i <= Len(tp) THEN tp[i] ELSE into[i]]

\* EncodePattern: the URI path in the slots before the last MaxTimeLength, the
\* time path in the last MaxTimeLength; it panics when the URI does not fit.
EncodePattern(uripath, timepath, into) ==
    IF Len(into) < Len(uripath) + MaxTimeLength
    THEN [panic |-> TRUE, pattern |-> into]
    ELSE [panic |-> FALSE,
          pattern |->
              EncodeURIPathInto(uripath,
                  SubSeq(into, 1, Len(into) - MaxTimeLength))
              \o EncodeTimePathInto(timepath,
                  SubSeq(into, Len(into) - MaxTimeLength + 1, Len(into)))]

\* make(Pattern, n)
MakePattern(n) == [i \in 1..n |-> << >>]

\* NewDefaultPatternEncoder(maxURILength): the encoder is its patternLength.
NewDefaultPatternEncoder(maxURILength) == maxURILength + MaxTimeLength

\* DefaultPatternEncoder.Encode
Encode(patternLength, uriPath, timePath, patternType) ==
    LET enc == EncodePattern(uriPath, timePath, MakePattern(patternLength))
        prefix == IF patternType = PatternTypeDecryption
                  THEN decryptionDefaultPatternComponentPrefix
                  ELSE signingDefaultPatternComponentPrefix
    IN  IF enc.panic \/ patternType \notin {PatternTypeDecryption, PatternTypeSigning}
        THEN [panic |-> TRUE, pattern |-> << >>]
        ELSE [panic |-> FALSE,
              pattern |-> [i \in 1..patternLength |->
                              IF Len(enc.pattern[i]) # 0
                              THEN <<prefix>> \o enc.pattern[i]
                              ELSE enc.pattern[i]]]

(***************************************************************************)
(* Delegation                                                              *)
(***************************************************************************)
DecryptPermission == 1
SignPermission == 2

\* The permission bits not told apart: any permission grants both.
HasPermission_Any(perm, bit) == perm # 0

\* perm & bit == bit, for the two permission bits.
HasPermission(perm, bit) == (perm \div bit) % 2 = 1

\* The swap of DelegateParsed done wrongly: both places get the second
\* pattern.
SwapPatterns_Overwrite(patterns, j, k) ==
    [patterns EXCEPT ![j] = patterns[k]]

\* patterns[j], patterns[k] = patterns[k], patterns[j] (places from 1).
SwapPatterns(patterns, j, k) ==
    [patterns EXCEPT ![j] = patterns[k], ![k] = patterns[j]]

\* The loop of DelegateParsed from the time path of index i (counted from 0)
\* on, patterns being what the rounds before have appended; an Encode that
\* panics ends it.
RECURSIVE DelegateParsedLoop(_, _, _, _, _, _)
DelegateParsedLoop(patternLength, uriPath, timePaths, perm, i, patterns) ==
    IF i = Len(timePaths) THEN [panic |-> FALSE, patterns |-> patterns]
    ELSE LET decrypt == HasPermission(perm, DecryptPermission)
             sign == HasPermission(perm, SignPermission)
             pd == Encode(patternLength, uriPath, timePaths[i + 1],
                          PatternTypeDecryption)
             ps == Encode(patternLength, uriPath, timePaths[i + 1],
                          PatternTypeSigning)
             added == patterns
                      \o (IF decrypt THEN <<pd.pattern>> ELSE << >>)
                      \o (IF sign THEN <<ps.pattern>> ELSE << >>)
         IN  IF (decrypt /\ pd.panic) \/ (sign /\ ps.panic)
             THEN [panic |-> TRUE, patterns |-> << >>]
             ELSE DelegateParsedLoop(patternLength, uriPath, timePaths, perm,
                      i + 1,
                      IF decrypt /\ sign /\ i % 2 = 1
                      THEN SwapPatterns(added, 2 * i + 1, 2 * i + 2)
                      ELSE added)

\* The key store as DelegatePatterns meets it: it answers every call of
\* KeyForPattern with a key ("all", the TestKeyStore), or it answers the call
\* numbered at with no key ("none") or with an error ("err") and every other
\* call with a key.
MaxFailAt == 3

KeyStores ==
    {[kind |-> "all", at |-> 0]}
        \cup {[kind |-> k, at |-> n] : k \in {"none", "err"}, n \in 1..MaxFailAt}

NoKey == [pattern |-> << >>, held |-> FALSE]

\* ks.KeyForPattern(ctx, hierarchy, pattern) at the i-th call: the key the
\* store holds for the pattern.
KeyForPattern(ks, i, hierarchy, pattern) ==
    IF ks.kind # "all" /\ ks.at = i
    THEN [err |-> ks.kind = "err", key |-> NoKey]
    ELSE [err |-> FALSE, key |-> [pattern |-> pattern, held |-> TRUE]]

\* wkdibe.NonDelegableQualifyKey(params, key, attrs)
NonDelegableQualifyKey(key, attrs) == [from |-> key, attrs |-> attrs]

\* The first pattern the key store is asked about only.
FirstFailure_FirstOnly(ks, hierarchy, patterns) ==
    IF /\ Len(patterns) > 0
       /\ LET r == KeyForPattern(ks, 1, hierarchy, patterns[1])
          IN  r.err \/ ~ r.key.held
    THEN 1 ELSE 0

\* The first round of the loop of DelegatePatterns that returns early: the
\* key store answers with an error or with no key (0 when no round does).
FirstFailure(ks, hierarchy, patterns) ==
    LET failing == {i \in 1..Len(patterns) :
                       LET r == KeyForPattern(ks, i, hierarchy, patterns[i])
                       IN  r.err \/ ~ r.key.held}
    IN  IF failing = {} THEN 0
        ELSE CHOOSE i \in failing : \A j \in failing : i <= j

\* DelegatePatterns: one qualified key per pattern, or nil and an error at
\* the first pattern the key store has no key for.
DelegatePatterns(ks, hierarchy, patterns) ==
    IF FirstFailure(ks, hierarchy, patterns) # 0
    THEN [panic |-> FALSE, err |-> TRUE, isNil |-> TRUE,
          patterns |-> << >>, keys |-> << >>]
    ELSE [panic |-> FALSE, err |-> FALSE, isNil |-> FALSE,
          patterns |-> patterns,
          keys |-> [i \in 1..Len(patterns) |->
                       NonDelegableQualifyKey(
                           KeyForPattern(ks, i, hierarchy, patterns[i]).key,
                           ToAttrs(patterns[i]))]]

DelegateParsed(ks, patternLength, hierarchy, uriPath, timePaths, perm) ==
    LET built == DelegateParsedLoop(patternLength, uriPath, timePaths, perm,
                                    0, << >>)
    IN  IF built.panic
        THEN [panic |-> TRUE, err |-> FALSE, isNil |-> TRUE,
              patterns |-> << >>, keys |-> << >>]
        ELSE DelegatePatterns(ks, hierarchy, built.patterns)

Delegate(ks, patternLength, hierarchy, uri, start, end, perm) ==
    LET parsed == ParseURI(uri)
        range == TimeRange(start, end)
    IN  IF parsed.err \/ range.err
        THEN [panic |-> FALSE, err |-> TRUE, isNil |-> TRUE,
              patterns |-> << >>, keys |-> << >>]
        ELSE DelegateParsed(ks, patternLength, hierarchy, parsed.path,
                            range.paths, perm)

(***************************************************************************)
(* helperTestDelegation: Delegate, then look for a conveying pattern for   *)
(* every hour from start up to end.                                        *)
(***************************************************************************)
TestHierarchy == <<104>>

\* The URI length the encoder of the delegation runs supports.
MaxURILength == 3

\* The longest span, in hours, from start to end.
MaxSpanHours == 30

\* tm.Add(time.Hour) on the calendar reading of a timestamp.
AddHour(t) ==
    IF t.h < MaxHour THEN [t EXCEPT !.h = t.h + 1]
    ELSE IF t.d < DaysInMonth(t.y, t.mo) THEN [t EXCEPT !.h = 0, !.d = t.d + 1]
    ELSE IF t.mo < MaxMonth THEN [t EXCEPT !.h = 0, !.d = 1, !.mo = t.mo + 1]
    ELSE [t EXCEPT !.h = 0, !.d = 1, !.mo = 1, !.y = t.y + 1]

RECURSIVE AddHours(_, _)
AddHours(t, n) == IF n = 0 THEN t ELSE AddHours(AddHour(t), n - 1)

DelegateURIs ==
    {<<"a", "/", "b", "/", "*">>, <<"a", "/", "b">>, <<"a", "/", "+", "/", "*">>,
     <<"*">>, <<"a", "/", "$">>, <<"a", "/", "b", "/", "c", "/", "d">>}

DelegateStarts ==
    {[y |-> 2019, mo |-> 8, d |-> 6, h |-> 19, mi |-> 22],
     [y |-> 2016, mo |-> 2, d |-> 28, h |-> 21, mi |-> 30],
     [y |-> 2015, mo |-> 12, d |-> 31, h |-> 0, mi |-> 0],
     [y |-> MaxYear, mo |-> 12, d |-> 31, h |-> 12, mi |-> 30]}

DelegateEnds(start) ==
    {[AddHours(start, n) EXCEPT !.mi = mi] :
        n \in 0..MaxSpanHours, mi \in {0, start.mi}}

Permissions == 0..(DecryptPermission + SignPermission)

InitDelegate ==
    /\ dgIn \in {[uri |-> u, start |-> st, end |-> en, perm |-> pm] :
                    u \in DelegateURIs, st \in DelegateStarts,
                    en \in UNION {DelegateEnds(x) : x \in DelegateStarts},
                    pm \in Permissions}
    /\ dgIn.end \in DelegateEnds(dgIn.start)
    /\ dgRes = NoResult
    /\ dgTm = NoInput
    /\ dgFail = FALSE
    /\ IdleURI /\ IdleTime /\ IdleClient

\* delegation, err := Delegate(ctx, store, encoder, ...)
DelegateStep ==
    /\ dgIn # NoInput
    /\ ~ dgRes.done
    /\ \E ks \in KeyStores :
          dgRes' = [done |-> TRUE, ks |-> ks] @@
                   Delegate(ks, NewDefaultPatternEncoder(MaxURILength),
                            TestHierarchy, dgIn.uri, dgIn.start, dgIn.end,
                            dgIn.perm)
    /\ dgTm' = dgIn.start
    /\ UNCHANGED <<dgIn, dgFail, uvars, tvars, cvars>>

\* Whether some pattern of the delegation matches the pattern of (uri, tm)
\* of the given type.
Conveyed(patterns, uri, tm, patternType) ==
    LET target == Encode(NewDefaultPatternEncoder(MaxURILength),
                         ParseURI(uri).path, ParseTime(tm).path, patternType)
    IN  \E i \in 1..Len(patterns) : Matches(patterns[i], target.pattern).ok

\* One round of the loop: for tm := start; tm.Before(end); tm = tm.Add(time.Hour)
HourStep ==
    /\ dgRes.done /\ ~ dgRes.err /\ ~ dgRes.panic
    /\ dgTm # NoInput
    /\ Before(dgTm, dgIn.end)
    /\ dgFail' = (\/ dgFail
                  \/ \E ty \in {PatternTypeDecryption, PatternTypeSigning} :
                         ~ Conveyed(dgRes.patterns, dgIn.uri, dgTm, ty))
    /\ dgTm' = AddHour(dgTm)
    /\ UNCHANGED <<dgIn, dgRes, uvars, tvars, cvars>>

\* The loop ends: tm is not before end.
HoursDone ==
    /\ dgRes.done /\ ~ dgRes.err /\ ~ dgRes.panic
    /\ dgTm # NoInput
    /\ ~ Before(dgTm, dgIn.end)
    /\ dgTm' = NoInput
    /\ UNCHANGED <<dgIn, dgRes, dgFail, uvars, tvars, cvars>>

NextDelegate == DelegateStep \/ HourStep \/ HoursDone

SpecDelegate == InitDelegate /\ [][NextDelegate]_vars

(***************************************************************************)
(* Properties of Delegate (under SpecDelegate)                             *)
(***************************************************************************)
Delegated == dgIn # NoInput /\ dgRes.done /\ ~ dgRes.err /\ ~ dgRes.panic

\* C6: a delegation made by Delegate with both permissions holds, for every
\* hour tm of the loop (start <= tm < end) and for the decryption and the
\* signing type, a pattern that Matches the pattern of (uri, tm); no run of
\* the loop calls t.Fail().
C6_DelegationCovers ==
    (Delegated /\ dgIn.perm = DecryptPermission + SignPermission) =>
        /\ ~ dgFail
        /\ (dgTm # NoInput /\ Before(dgTm, dgIn.end)) =>
               \A ty \in {PatternTypeDecryption, PatternTypeSigning} :
                   Conveyed(dgRes.patterns, dgIn.uri, dgTm, ty)

\* The loop has reached an hour in the next day of a delegation of both
\* permissions on a prefix URI made of several time paths.
C6_Witness ==
    /\ Delegated /\ dgIn.perm = DecryptPermission + SignPermission
    /\ dgIn.uri = <<"a", "/", "b", "/", "*">>
    /\ Len(dgRes.patterns) >= 6
    /\ dgTm # NoInput /\ Before(dgTm, dgIn.end)
    /\ dgTm.d # dgIn.start.d
    /\ ~ dgFail

(***************************************************************************)
(* ClientState: the cache, its entries and the symbolic cryptography       *)
(*                                                                         *)
(* A symmetric key is a number: the n-th call of EncryptPrepared samples   *)
(* key n and yields encapsulation n; 0 is the zeroed key array and a       *)
(* negative number a key that a decryption under the wrong pattern gives.  *)
(* A ciphertext byte is a tuple <<kind, a, b, c>> telling what it holds.   *)
(***************************************************************************)
Threads == {"t1", "t2"}

NoThread == "none"

Hierarchies == {TestHierarchy}

\* The most calls of Encrypt / Decrypt started in a run.
MaxOps == 3

\* The capacity of the LRU cache, counted in entries.
CacheCapacity == 2

\* wkdibe.CiphertextMarshalledLength(true): the library fixes the length; the
\* model takes a short one.
EncryptedKeySize == 4

\* aes.BlockSize
BlockSize == 16

cacheKeyTypeHierarchy == 0
cacheKeyTypeEncryption == 1
cacheKeyTypeDecryption == 2

ZeroByte == <<"zero", 0, 0, 0>>

\* make([]byte, n)
ZeroBytes(n) == [i \in 1..n |-> ZeroByte]

\* Ciphertext.Marshal(true) of encapsulation id.
Marshal(id) == [i \in 1..EncryptedKeySize |-> <<"ek", id, i, 0>>]

\* Ciphertext.Unmarshal(bytes, true, false): the encapsulation whose
\* marshalling the bytes are; of other bytes the library may make a
\* ciphertext (id 0) or refuse them.
UnmarshalOutcomes(bytes) ==
    IF Len(bytes) = EncryptedKeySize /\ bytes[1][1] = "ek" /\ bytes = Marshal(bytes[1][2])
    THEN {[ok |-> TRUE, id |-> bytes[1][2]]}
    ELSE {[ok |-> TRUE, id |-> 0], [ok |-> FALSE, id |-> 0]}

\* aesCTREncryptInMem: a fresh IV block, then the message under the key.
AESEncrypt(message, key, iv) ==
    [i \in 1..BlockSize |-> <<"iv", iv, i, 0>>]
    \o [i \in 1..Len(message) |-> <<"ct", key, iv, message[i]>>]

\* A byte of plaintext that the key stream of another key leaves.
GarbageByte == 0 - 1

\* aesCTRDecryptInMem into make([]byte, len(encryptedMessage)-aes.BlockSize):
\* the message under the right key, other bytes under any other key.
AESDecrypt(encryptedMessage, key) ==
    IF Len(encryptedMessage) < BlockSize
    THEN [panic |-> TRUE, out |-> << >>]
    ELSE [panic |-> FALSE,
          out |-> [i \in 1..(Len(encryptedMessage) - BlockSize) |->
                      LET b == encryptedMessage[BlockSize + i]
                      IN  IF b[1] = "ct" /\ b[2] = key
                             /\ b[3] = encryptedMessage[1][2]
                             /\ encryptedMessage[1][1] = "iv"
                          THEN b[4] ELSE GarbageByte]]

\* binary.LittleEndian.PutUint32
Uint32Bytes(n) ==
    <<n % ByteMod, (n \div ByteMod) % ByteMod,
      (n \div (ByteMod * ByteMod)) % ByteMod,
      (n \div (ByteMod * ByteMod * ByteMod)) % ByteMod>>

\* The cache keys: a tag byte, then the content.
hierarchyCacheKey(ns) == [tag |-> cacheKeyTypeHierarchy, body |-> ns]

\* The encryption cache key made of the hierarchy alone.
encryptionCacheKey_NoURI(ns, uri) ==
    [tag |-> cacheKeyTypeEncryption, body |-> Uint32Bytes(Len(ns)) \o ns]

encryptionCacheKey(ns, uri) ==
    [tag |-> cacheKeyTypeEncryption,
     body |-> Uint32Bytes(Len(ns)) \o ns
              \o Concat([i \in 1..Len(uri) |-> uri[i] \o <<ByteOf("/")>>])]

\* One cache key for every encapsulation.
decryptionCacheKey_Shared(ciphertext) ==
    [tag |-> cacheKeyTypeDecryption, body |-> << >>]

decryptionCacheKey(ciphertext) ==
    [tag |-> cacheKeyTypeDecryption, body |-> ciphertext]

\* A prepared attribute list is told by the hierarchy whose parameters and
\* the attribute list it was prepared for; fits says whether the library got
\* it from arguments that belong together.
NoPrepared == [h |-> << >>, attrs |-> << >>, fits |-> FALSE]

\* wkdibe.PrepareAttributeList(params, attrs)
PrepareAttributeList(h, attrs) == [h |-> h, attrs |-> attrs, fits |-> TRUE]

\* wkdibe.AdjustPreparedAttributeList(prepared, params, from, to): prepared,
\* made for from, becomes the list for to.
AdjustPreparedAttributeList(prepared, h, from, to) ==
    [h |-> h, attrs |-> to,
     fits |-> prepared.fits /\ prepared.h = h /\ prepared.attrs = from]

\* new(encryptionCacheEntry) / new(decryptionCacheEntry): one shape for both.
\* by is who populated a decryption entry: the hierarchy and pattern of the
\* call that stored its key; decryptions counts the WKD-IBE decryptions
\* stored into it.
NewEntry(kind) ==
    [kind |-> kind, pattern |-> << >>, attrs |-> << >>, precomputed |-> NoPrepared,
     key |-> 0, enc |-> 0,
     populated |-> FALSE, by |-> << >>, decryptions |-> 0,
     readers |-> {}, writer |-> NoThread]

\* Where the cache holds the key (no or one place).
CacheIndex(key) ==
    {i \in 1..Len(cache) : cache[i].tag = key.tag /\ cache[i].body = key.body}

\* The cache after a hit at place i: the entry becomes the most recent.
CacheTouch(i) ==
    SubSeq(cache, 1, i - 1) \o SubSeq(cache, i + 1, Len(cache)) \o <<cache[i]>>

\* The cache after a miss: the loaded entry is added and the least recently
\* used entries beyond the capacity are evicted.
CacheInsert(key, ent) ==
    LET added == Append(cache, [tag |-> key.tag, body |-> key.body, ent |-> ent])
    IN  IF Len(added) > CacheCapacity
        THEN SubSeq(added, Len(added) - CacheCapacity + 1, Len(added))
        ELSE added

\* cache.Get for an encryption or decryption entry: the new cache, the new
\* heap and the entry got.
CacheGetEntry(key, kind) ==
    IF CacheIndex(key) # {}
    THEN LET i == CHOOSE j \in CacheIndex(key) : TRUE
         IN  [cache |-> CacheTouch(i), heap |-> heap, ent |-> cache[i].ent]
    ELSE [cache |-> CacheInsert(key, Len(heap) + 1),
          heap |-> Append(heap, NewEntry(kind)),
          ent |-> Len(heap) + 1]

\* Pattern.ToAttrsWithReference: the loop runs over the slots of p and reads
\* q[i] at each of them, so a shorter q is indexed out of range and the slots
\* of a longer q past the end of p are never looked at.  A lookup in qAttrs of
\* an index it does not hold gives the nil attribute.
NilAttr == << >>

ToAttrsWithReference(p, q, qAttrs) ==
    IF Len(q) < Len(p)
    THEN [panic |-> TRUE, attrs |-> << >>, equal |-> FALSE]
    ELSE [panic |-> FALSE,
          attrs |-> [i \in {j \in 1..Len(p) : Len(p[j]) # 0} |->
                        IF p[i] = q[i]
                        THEN IF i \in DOMAIN qAttrs THEN qAttrs[i] ELSE NilAttr
                        ELSE p[i]],
          equal |-> \A i \in 1..Len(p) :
                        IF Len(p[i]) # 0 THEN p[i] = q[i] ELSE Len(q[i]) = 0]

\* The key store: one delegation, good for every URI in the hour of the
\* first timestamp (all URI slots free, the six time slots bound).
ClientTime1 == [y |-> 2019, mo |-> 8, d |-> 6, h |-> 19, mi |-> 22]
ClientTime2 == AddHour(ClientTime1)

ClientEncoder == NewDefaultPatternEncoder(MaxURILength)

StoreKeys ==
    {Encode(ClientEncoder, << >>, ParseTime(ClientTime1).path,
            PatternTypeDecryption).pattern}

\* KeyStoreReader.KeyForPattern: a key whose pattern matches, and otherwise
\* no key or an error.
KeyForPatternOutcomes(hierarchy, pattern) ==
    IF \E k \in StoreKeys : Matches(k, pattern).ok
    THEN {"key"} ELSE {"nil", "err"}

\* wkdibe.Decrypt with the key qualified to the pattern, hashed to a
\* symmetric key: the key encapsulated, if the encapsulation was made for
\* this hierarchy and pattern.
WkdibeDecrypt(ct, hierarchy, pattern) ==
    IF ct >= 1 /\ encaps[ct].h = hierarchy /\ Equals(encaps[ct].pattern, pattern)
    THEN ct ELSE 0 - (ct + 1)

(***************************************************************************)
(* ClientState: Encrypt and Decrypt, step by step                          *)
(***************************************************************************)
NoOp ==
    [kind |-> "none", h |-> << >>, uri |-> << >>, t |-> NoInput, data |-> << >>,
     from |-> 0, pattern |-> << >>, encKey |-> << >>, encMsg |-> << >>]

\* The locals of a call: its pattern and URI path, the cache entry it got,
\* the key and encapsulation it copied, the ciphertext it unmarshalled, and
\* what it returns.
NoLocals ==
    [pattern |-> << >>, up |-> << >>, ent |-> 0, key |-> 0, enc |-> 0, ct |-> 0,
     err |-> FALSE, panic |-> FALSE, out |-> << >>]

Failed == [NoLocals EXCEPT !.err = TRUE]

Panicked == [NoLocals EXCEPT !.panic = TRUE]

URI_a == <<"a">>
URI_b == <<"b">>
URI_dollar == <<"a", "/", "$">>
URI_star == <<"*", "/", "a">>

\* The URIs and times of the calls, and what ParseURI, ParseTime and the
\* encoder's Encode make of them.
CallURIs == {URI_a, URI_b, URI_dollar, URI_star}

CallTimes == {ClientTime1, ClientTime2}

ParsedURIs == [u \in CallURIs |-> ParseURI(u)]

ParsedTimes == [t \in CallTimes |-> ParseTime(t)]

EncodedCalls ==
    [u \in CallURIs, t \in CallTimes |->
        Encode(ClientEncoder, ParsedURIs[u].path, ParsedTimes[t].path,
               PatternTypeDecryption)]

EncryptCalls ==
    {[uri |-> URI_a, t |-> ClientTime1, msg |-> <<7>>],
     [uri |-> URI_a, t |-> ClientTime2, msg |-> <<7>>],
     [uri |-> URI_b, t |-> ClientTime1, msg |-> << >>],
     [uri |-> URI_dollar, t |-> ClientTime1, msg |-> <<7>>],
     [uri |-> URI_star, t |-> ClientTime1, msg |-> <<7>>]}

DecryptCalls ==
    {[uri |-> URI_a, t |-> ClientTime1], [uri |-> URI_a, t |-> ClientTime2],
     [uri |-> URI_b, t |-> ClientTime1], [uri |-> URI_b, t |-> ClientTime2]}

InvalidDecryptCalls ==
    {[uri |-> URI_dollar, t |-> ClientTime1],
     [uri |-> URI_star, t |-> ClientTime1]}

DecryptWithPatternCalls ==
    {[pattern |-> MakePattern(ClientEncoder), encKey |-> ZeroBytes(l[1]),
      encMsg |-> ZeroBytes(l[2])] :
        l \in {<<EncryptedKeySize, BlockSize - 1>>,
               <<EncryptedKeySize - 1, BlockSize>>,
               <<EncryptedKeySize, BlockSize>>}}

Init ==
    /\ cache = << >>
    /\ heap = << >>
    /\ encaps = << >>
    /\ sent = << >>
    /\ calls = [params |-> 0, store |-> 0, started |-> 0]
    /\ pc = [th \in Threads |-> "idle"]
    /\ op = [th \in Threads |-> NoOp]
    /\ loc = [th \in Threads |-> NoLocals]
    /\ IdleURI /\ IdleTime /\ IdleDelegate

CanStart(th) == pc[th] = "idle" /\ calls.started < MaxOps

Started == [calls EXCEPT !.started = calls.started + 1]

\* The call of thread th returns what l says.
Finish(th, l) ==
    /\ pc' = [pc EXCEPT ![th] = "done"]
    /\ loc' = [loc EXCEPT ![th] = l]

\* The call of thread th goes on at place p with locals l.
Goto(th, p, l) ==
    /\ pc' = [pc EXCEPT ![th] = p]
    /\ loc' = [loc EXCEPT ![th] = l]

\* Encrypt, for one of the given calls, up to the call of EncryptWithPattern:
\* parse the URI and the time, encode the pattern.
StartEncrypt(th, encryptCalls) ==
    /\ \E h \in Hierarchies, c \in encryptCalls :
          LET uriPath == ParsedURIs[c.uri]
              timePath == ParsedTimes[c.t]
              encoded == EncodedCalls[c.uri, c.t]
          IN  /\ op' = [op EXCEPT ![th] =
                           [NoOp EXCEPT !.kind = "Encrypt", !.h = h, !.uri = c.uri,
                                        !.t = c.t, !.data = c.msg]]
              /\ IF uriPath.err \/ timePath.err THEN Finish(th, Failed)
                 ELSE IF encoded.panic THEN Finish(th, Panicked)
                 ELSE Goto(th, "e_params",
                           [NoLocals EXCEPT !.pattern = encoded.pattern,
                                            !.up = uriPath.path])
    /\ calls' = Started
    /\ UNCHANGED <<cache, heap, encaps, sent, uvars, tvars, dvars>>

BeginEncrypt(th) == CanStart(th) /\ StartEncrypt(th, EncryptCalls)

\* A failed load leaving an entry for its key.
FailedLoad_Cached(key) == CacheInsert(key, 0)

\* The cache after its loader returned an error for the key: as before.
FailedLoad(key) == cache

\* state.cache.Get(ctx, hierarchyCacheKey(hierarchy)): on a miss the loader
\* calls ParamsForHierarchy, which may fail.
EncryptGetParams(th) ==
    /\ pc[th] = "e_params"
    /\ LET key == hierarchyCacheKey(op[th].h)
       IN  IF CacheIndex(key) # {}
           THEN /\ cache' = CacheTouch(CHOOSE i \in CacheIndex(key) : TRUE)
                /\ Goto(th, "e_entry", loc[th])
                /\ UNCHANGED calls
           ELSE /\ calls' = [calls EXCEPT !.params = calls.params + 1]
                /\ \E loaded \in BOOLEAN :
                      IF loaded
                      THEN /\ cache' = CacheInsert(key, 0)
                           /\ Goto(th, "e_entry", loc[th])
                      ELSE /\ cache' = FailedLoad(key)
                           /\ Finish(th, Failed)
    /\ UNCHANGED <<heap, encaps, sent, op, uvars, tvars, dvars>>

\* state.cache.Get(ctx, encryptionCacheKey(hierarchy, uriPath))
EncryptGetEntry(th) ==
    /\ pc[th] = "e_entry"
    /\ LET got == CacheGetEntry(encryptionCacheKey(op[th].h, loc[th].up), "enc")
       IN  /\ cache' = got.cache
           /\ heap' = got.heap
           /\ Goto(th, "e_rlock", [loc[th] EXCEPT !.ent = got.ent])
    /\ UNCHANGED <<encaps, sent, calls, op, uvars, tvars, dvars>>

\* entry.lock.RLock()
EncryptRLock(th) ==
    /\ pc[th] = "e_rlock"
    /\ heap[loc[th].ent].writer = NoThread
    /\ heap' = [heap EXCEPT ![loc[th].ent].readers = @ \cup {th}]
    /\ Goto(th, "e_read", loc[th])
    /\ UNCHANGED <<cache, encaps, sent, calls, op, uvars, tvars, dvars>>

\* identical := pattern.Equals(entry.pattern); copy if identical; RUnlock.
EncryptRead(th) ==
    /\ pc[th] = "e_read"
    /\ LET entry == heap[loc[th].ent]
           identical == Equals(loc[th].pattern, entry.pattern)
       IN  /\ heap' = [heap EXCEPT ![loc[th].ent].readers = @ \ {th}]
           /\ IF identical
              THEN Goto(th, "e_seal",
                        [loc[th] EXCEPT !.key = entry.key, !.enc = entry.enc])
              ELSE Goto(th, "e_lock", loc[th])
    /\ UNCHANGED <<cache, encaps, sent, calls, op, uvars, tvars, dvars>>

\* entry.lock.Lock()
EncryptLock(th) ==
    /\ pc[th] = "e_lock"
    /\ heap[loc[th].ent].writer = NoThread
    /\ heap[loc[th].ent].readers = {}
    /\ heap' = [heap EXCEPT ![loc[th].ent].writer = th]
    /\ Goto(th, "e_write", loc[th])
    /\ UNCHANGED <<cache, encaps, sent, calls, op, uvars, tvars, dvars>>

\* The write section with its check left out: the entry is always updated.
UpdateEntryAndEncrypt_Always(pattern, entryPattern) == TRUE

\* The write section updating new entries only.
UpdateEntryAndEncrypt_NewOnly(pattern, entryPattern) == entryPattern = << >>

\* updateEntryAndEncrypt: the entry is new, or its pattern is (still) not
\* the pattern of this call.
UpdateEntryAndEncrypt(pattern, entryPattern) ==
    \/ entryPattern = << >>
    \/ ~ ToAttrsWithReference(pattern, entryPattern, ToAttrs(entryPattern)).equal

\* The write section keeping the attribute list of an entry it finds filled.
WrittenAttrs_Kept(pattern, entry) ==
    IF entry.pattern = << >> THEN ToAttrs(pattern) ELSE entry.attrs

\* The attribute list the write section computes for the pattern of the
\* call: from scratch for a new entry, from the entry's otherwise.
WrittenAttrs(pattern, entry) ==
    IF entry.pattern = << >> THEN ToAttrs(pattern)
    ELSE ToAttrsWithReference(pattern, entry.pattern, entry.attrs).attrs

\* The prepared list of the entry after the write section: prepared from
\* scratch for a new entry, adjusted from the entry's otherwise.
WrittenPrepared(h, pattern, entry) ==
    IF entry.pattern = << >>
    THEN PrepareAttributeList(h, ToAttrs(pattern))
    ELSE AdjustPreparedAttributeList(entry.precomputed, h, entry.attrs,
                                     WrittenAttrs(pattern, entry))

\* A write section that ends without entry.lock.Unlock().
Unlock_Forgotten(entry) == entry

\* entry.lock.Unlock() at the end of a write section
Unlock(entry) == [entry EXCEPT !.writer = NoThread]

\* The write section of EncryptWithPattern, up to entry.lock.Unlock().
EncryptWrite(th) ==
    /\ pc[th] = "e_write"
    /\ LET ent == loc[th].ent
           entry == heap[ent]
           id == Len(encaps) + 1
           prepared == WrittenPrepared(op[th].h, loc[th].pattern, entry)
       IN  IF UpdateEntryAndEncrypt(loc[th].pattern, entry.pattern)
           THEN /\ heap' = [heap EXCEPT ![ent] =
                               Unlock([entry EXCEPT
                                          !.pattern = loc[th].pattern,
                                          !.attrs = WrittenAttrs(loc[th].pattern, entry),
                                          !.precomputed = prepared,
                                          !.key = id, !.enc = id])]
                /\ encaps' = Append(encaps,
                                [h |-> op[th].h, up |-> loc[th].up,
                                 pattern |-> loc[th].pattern, ent |-> ent,
                                 key |-> id, under |-> prepared])
                /\ Goto(th, "e_seal", [loc[th] EXCEPT !.key = id, !.enc = id])
           ELSE /\ heap' = [heap EXCEPT ![ent] = Unlock(entry)]
                /\ encaps' = encaps
                /\ Goto(th, "e_seal",
                        [loc[th] EXCEPT !.key = entry.key, !.enc = entry.enc])
    /\ UNCHANGED <<cache, sent, calls, op, uvars, tvars, dvars>>

\* aesCTREncryptInMem(encrypted[EncryptedKeySize:], message, key[:]); return.
EncryptSeal(th) ==
    /\ pc[th] = "e_seal"
    /\ LET encrypted == Marshal(loc[th].enc)
                        \o AESEncrypt(op[th].data, loc[th].key, Len(sent) + 1)
       IN  /\ sent' = Append(sent,
                         [h |-> op[th].h, uri |-> op[th].uri, t |-> op[th].t,
                          up |-> loc[th].up,
                          pattern |-> loc[th].pattern, msg |-> op[th].data,
                          enc |-> loc[th].enc, key |-> loc[th].key,
                          env |-> encrypted])
           /\ Finish(th, [loc[th] EXCEPT !.out = encrypted])
    /\ UNCHANGED <<cache, heap, encaps, calls, op, uvars, tvars, dvars>>

\* The length check of DecryptWithPattern looking at the key only.
LengthsValid_KeyOnly(encryptedKey, encryptedMessage) ==
    Len(encryptedKey) = EncryptedKeySize

\* The sanity check of DecryptWithPattern on its two lengths.
LengthsValid(encryptedKey, encryptedMessage) ==
    /\ Len(encryptedKey) = EncryptedKeySize
    /\ Len(encryptedMessage) >= BlockSize

\* The split of Decrypt with the key a byte short.
EncryptedKeyOf_Short(encrypted) == SubSeq(encrypted, 1, EncryptedKeySize - 1)

\* encrypted[:EncryptedKeySize] and encrypted[EncryptedKeySize:]
EncryptedKeyOf(encrypted) == SubSeq(encrypted, 1, EncryptedKeySize)

EncryptedMessageOf(encrypted) ==
    SubSeq(encrypted, EncryptedKeySize + 1, Len(encrypted))

\* The two ciphertexts a decrypting call works on.
OpKey(o) == IF o.kind = "Decrypt" THEN EncryptedKeyOf(o.data) ELSE o.encKey

OpMessage(o) == IF o.kind = "Decrypt" THEN EncryptedMessageOf(o.data) ELSE o.encMsg

\* The envelopes handed to Decrypt: an output of an earlier Encrypt (from
\* says which) or a blob one byte too short.
Envelopes == {[from |-> i, env |-> sent[i].env] : i \in 1..Len(sent)}

\* The calls of Decrypt: on the outputs of Encrypt, with an invalid URI on a
\* blob of zero bytes of the least valid length, and on a blob one byte
\* shorter.
DecryptInputs ==
    {[uri |-> c.uri, t |-> c.t, from |-> e.from, env |-> e.env] :
        c \in DecryptCalls, e \in Envelopes}
    \cup {[uri |-> c.uri, t |-> c.t, from |-> 0,
           env |-> ZeroBytes(EncryptedKeySize + BlockSize)] :
              c \in InvalidDecryptCalls}
    \cup {[uri |-> URI_a, t |-> ClientTime1, from |-> 0,
           env |-> ZeroBytes(EncryptedKeySize + BlockSize - 1)]}

\* Decrypt and DecryptSeparated, for one of the given calls, up to the cache
\* lookup of DecryptWithPattern: check the length, split, parse the URI and
\* the time, encode the pattern, check the lengths.
StartDecrypt(th, decryptInputs) ==
    /\ \E h \in Hierarchies, c \in decryptInputs :
          LET e == [from |-> c.from, env |-> c.env]
              uriPath == ParsedURIs[c.uri]
              timePath == ParsedTimes[c.t]
              encoded == EncodedCalls[c.uri, c.t]
          IN  /\ op' = [op EXCEPT ![th] =
                           [NoOp EXCEPT !.kind = "Decrypt", !.h = h, !.uri = c.uri,
                                        !.t = c.t, !.data = e.env,
                                        !.from = e.from,
                                        !.pattern =
                                            IF uriPath.err \/ timePath.err
                                               \/ encoded.panic
                                            THEN << >> ELSE encoded.pattern]]
              /\ IF Len(e.env) < EncryptedKeySize + BlockSize
                 THEN Finish(th, Failed)
                 ELSE IF uriPath.err \/ timePath.err THEN Finish(th, Failed)
                 ELSE IF encoded.panic THEN Finish(th, Panicked)
                 ELSE IF ~ LengthsValid(EncryptedKeyOf(e.env),
                                        EncryptedMessageOf(e.env))
                 THEN Finish(th, Failed)
                 ELSE Goto(th, "d_entry",
                           [NoLocals EXCEPT !.pattern = encoded.pattern])
    /\ calls' = Started
    /\ UNCHANGED <<cache, heap, encaps, sent, uvars, tvars, dvars>>

BeginDecrypt(th) == CanStart(th) /\ StartDecrypt(th, DecryptInputs)

\* DecryptWithPattern, for one of the given calls, up to its cache lookup:
\* check the lengths.
StartDecryptWithPattern(th, patternCalls) ==
    /\ \E h \in Hierarchies, c \in patternCalls :
          /\ op' = [op EXCEPT ![th] =
                       [NoOp EXCEPT !.kind = "DecryptWithPattern", !.h = h,
                                    !.pattern = c.pattern, !.encKey = c.encKey,
                                    !.encMsg = c.encMsg]]
          /\ IF ~ LengthsValid(c.encKey, c.encMsg)
             THEN Finish(th, Failed)
             ELSE Goto(th, "d_entry", [NoLocals EXCEPT !.pattern = c.pattern])
    /\ calls' = Started
    /\ UNCHANGED <<cache, heap, encaps, sent, uvars, tvars, dvars>>

BeginDecryptWithPattern(th) ==
    CanStart(th) /\ StartDecryptWithPattern(th, DecryptWithPatternCalls)

\* state.cache.Get(ctx, decryptionCacheKey(encryptedKey))
DecryptGetEntry(th) ==
    /\ pc[th] = "d_entry"
    /\ LET got == CacheGetEntry(decryptionCacheKey(OpKey(op[th])), "dec")
       IN  /\ cache' = got.cache
           /\ heap' = got.heap
           /\ Goto(th, "d_rlock", [loc[th] EXCEPT !.ent = got.ent])
    /\ UNCHANGED <<encaps, sent, calls, op, uvars, tvars, dvars>>

\* entry.lock.RLock()
DecryptRLock(th) ==
    /\ pc[th] = "d_rlock"
    /\ heap[loc[th].ent].writer = NoThread
    /\ heap' = [heap EXCEPT ![loc[th].ent].readers = @ \cup {th}]
    /\ Goto(th, "d_read", loc[th])
    /\ UNCHANGED <<cache, encaps, sent, calls, op, uvars, tvars, dvars>>

\* if entry.populated: copy the key; RUnlock.
DecryptRead(th) ==
    /\ pc[th] = "d_read"
    /\ LET entry == heap[loc[th].ent]
       IN  /\ heap' = [heap EXCEPT ![loc[th].ent].readers = @ \ {th}]
           /\ IF entry.populated
              THEN Goto(th, "d_open", [loc[th] EXCEPT !.key = entry.key])
              ELSE Goto(th, "d_lock", loc[th])
    /\ UNCHANGED <<cache, encaps, sent, calls, op, uvars, tvars, dvars>>

\* entry.lock.Lock()
DecryptLock(th) ==
    /\ pc[th] = "d_lock"
    /\ heap[loc[th].ent].writer = NoThread
    /\ heap[loc[th].ent].readers = {}
    /\ heap' = [heap EXCEPT ![loc[th].ent].writer = th]
    /\ Goto(th, "d_check", loc[th])
    /\ UNCHANGED <<cache, encaps, sent, calls, op, uvars, tvars, dvars>>

\* An error return that forgets the lock.
FailedEntry_Locked(entry) == entry

\* entry.lock.Unlock() before an error return: nothing else of the entry is
\* touched.
FailedEntry(entry) == [entry EXCEPT !.writer = NoThread]

\* The second look at entry.populated left out.
PopulatedNow_Unchecked(entry) == FALSE

\* if entry.populated, under the write lock
PopulatedNow(entry) == entry.populated

\* Under the write lock: if populated by now, copy and unlock; otherwise
\* unmarshal the encapsulation (unlock and fail if malformed) and go on to
\* the key store, the lock still held.
DecryptCheck(th) ==
    /\ pc[th] = "d_check"
    /\ LET ent == loc[th].ent
           entry == heap[ent]
       IN  IF PopulatedNow(entry)
           THEN /\ heap' = [heap EXCEPT ![ent] = Unlock(entry)]
                /\ Goto(th, "d_open", [loc[th] EXCEPT !.key = entry.key])
           ELSE \E u \in UnmarshalOutcomes(OpKey(op[th])) :
                   IF u.ok
                   THEN /\ heap' = heap
                        /\ Goto(th, "d_store", [loc[th] EXCEPT !.ct = u.id])
                   ELSE /\ heap' = [heap EXCEPT ![ent] = FailedEntry(entry)]
                        /\ Finish(th, Failed)
    /\ UNCHANGED <<cache, encaps, sent, calls, op, uvars, tvars, dvars>>

\* The key a decryption under any pattern would give if the pattern did not
\* matter: the key encapsulated.
DecryptedKey_AnyPattern(ct, hierarchy, pattern) == ct

\* NonDelegableQualifyKey, wkdibe.Decrypt, HashToSymmetricKey
DecryptedKey(ct, hierarchy, pattern) == WkdibeDecrypt(ct, hierarchy, pattern)

\* state.store.KeyForPattern under the write lock; with a key: decrypt the
\* encapsulation, store the key, populated = true; unlock.
DecryptKeyForPattern(th) ==
    /\ pc[th] = "d_store"
    /\ calls' = [calls EXCEPT !.store = calls.store + 1]
    /\ LET ent == loc[th].ent
       IN  \E o \in KeyForPatternOutcomes(op[th].h, loc[th].pattern) :
              IF o = "key"
              THEN LET k == DecryptedKey(loc[th].ct, op[th].h, loc[th].pattern)
                   IN  /\ heap' = [heap EXCEPT ![ent] =
                                      Unlock([@ EXCEPT
                                                 !.key = k, !.populated = TRUE,
                                                 !.by = <<op[th].h, loc[th].pattern>>,
                                                 !.decryptions = @ + 1])]
                       /\ Goto(th, "d_open", [loc[th] EXCEPT !.key = k])
              ELSE /\ heap' = [heap EXCEPT ![ent] = FailedEntry(heap[ent])]
                   /\ Finish(th, Failed)
    /\ UNCHANGED <<cache, encaps, sent, op, uvars, tvars, dvars>>

\* aesCTRDecryptInMem(decrypted, encryptedMessage, key[:]); return.
DecryptOpen(th) ==
    /\ pc[th] = "d_open"
    /\ LET opened == AESDecrypt(OpMessage(op[th]), loc[th].key)
       IN  Finish(th, [loc[th] EXCEPT !.panic = opened.panic, !.out = opened.out])
    /\ UNCHANGED <<cache, heap, encaps, sent, calls, op, uvars, tvars, dvars>>

\* The caller has its result; the thread is free for another call.
Return(th) ==
    /\ pc[th] = "done"
    /\ pc' = [pc EXCEPT ![th] = "idle"]
    /\ op' = [op EXCEPT ![th] = NoOp]
    /\ loc' = [loc EXCEPT ![th] = NoLocals]
    /\ UNCHANGED <<cache, heap, encaps, sent, calls, uvars, tvars, dvars>>

Next ==
    \E th \in Threads :
        \/ BeginEncrypt(th)
        \/ EncryptGetParams(th)
        \/ EncryptGetEntry(th)
        \/ EncryptRLock(th)
        \/ EncryptRead(th)
        \/ EncryptLock(th)
        \/ EncryptWrite(th)
        \/ EncryptSeal(th)
        \/ BeginDecrypt(th)
        \/ BeginDecryptWithPattern(th)
        \/ DecryptGetEntry(th)
        \/ DecryptRLock(th)
        \/ DecryptRead(th)
        \/ DecryptLock(th)
        \/ DecryptCheck(th)
        \/ DecryptKeyForPattern(th)
        \/ DecryptOpen(th)
        \/ Return(th)

Spec == Init /\ [][Next]_vars

(***************************************************************************)
(* Properties of ClientState (under Spec)                                  *)
(***************************************************************************)
\* The pattern DecryptSeparated encoded for the URI and time of a call and
\* passed to DecryptWithPattern; empty if the URI or time did not parse.
OpPattern(o) == o.pattern

\* The key store holds a key covering the pattern.
Covered(hierarchy, pattern) == KeyForPatternOutcomes(hierarchy, pattern) = {"key"}

\* Thread th has finished a Decrypt of the output sent[op[th].from] of an
\* earlier Encrypt.
DecryptedSent(th) ==
    pc[th] = "done" /\ op[th].kind = "Decrypt" /\ op[th].from >= 1

\* ... with the hierarchy, URI and time of that Encrypt.
DecryptedSame(th) ==
    /\ DecryptedSent(th)
    /\ op[th].h = sent[op[th].from].h
    /\ op[th].uri = sent[op[th].from].uri
    /\ op[th].t = sent[op[th].from].t

\* ... with its hierarchy and time, but a URI of another pattern.
DecryptedOtherURI(th) ==
    /\ DecryptedSent(th)
    /\ op[th].h = sent[op[th].from].h
    /\ op[th].t = sent[op[th].from].t
    /\ OpPattern(op[th]) # << >>
    /\ OpPattern(op[th]) # sent[op[th].from].pattern

ReturnedBytes(th) == ~ loc[th].err /\ ~ loc[th].panic

\* C1 (as claimed): in every reachable state, Decrypt(h, uri, t, c) of an
\* output c = Encrypt(h, uri, t, msg), with a covering key in the key store,
\* returns msg without error.
C1_RoundTrip ==
    \A th \in Threads :
        (DecryptedSame(th) /\ Covered(op[th].h, OpPattern(op[th]))) =>
            ReturnedBytes(th) /\ loc[th].out = sent[op[th].from].msg

\* C1 (amended): the same, provided the decryption cache entry of c's
\* encapsulation was populated by a call with this hierarchy and pattern
\* (and not, before, by a Decrypt of c under another URI or time).
C1_RoundTripUnpoisoned ==
    \A th \in Threads :
        (DecryptedSame(th) /\ Covered(op[th].h, OpPattern(op[th]))) =>
            /\ ReturnedBytes(th)
            /\ loc[th].ent >= 1
            /\ heap[loc[th].ent].populated
            /\ heap[loc[th].ent].by = <<op[th].h, OpPattern(op[th])>> =>
                   loc[th].out = sent[op[th].from].msg

\* A round trip of a non-empty message has come back right from a cached
\* key, after a pattern change on the URI.
C1_Witness ==
    \E th \in Threads :
        /\ DecryptedSame(th) /\ ReturnedBytes(th)
        /\ Covered(op[th].h, OpPattern(op[th]))
        /\ loc[th].out = <<7>>
        /\ heap[loc[th].ent].by = <<op[th].h, OpPattern(op[th])>>
        /\ calls.store = 1 /\ calls.started = MaxOps

\* Every output of Encrypt carries an encapsulation made for its hierarchy,
\* URI and pattern, and the key of that encapsulation.
OutputsUseEncapsulations ==
    \A i \in 1..Len(sent) :
        /\ sent[i].enc \in 1..Len(encaps)
        /\ encaps[sent[i].enc].h = sent[i].h
        /\ encaps[sent[i].enc].up = sent[i].up
        /\ encaps[sent[i].enc].pattern = sent[i].pattern
        /\ sent[i].key = sent[i].enc
        /\ EncryptedKeyOf(sent[i].env) = Marshal(sent[i].enc)

SameURI(i, j) == encaps[i].h = encaps[j].h /\ encaps[i].up = encaps[j].up

C3_WrongURI ==
    \A th \in Threads :
        DecryptedOtherURI(th) =>
            ReturnedBytes(th) /\ loc[th].out # sent[op[th].from].msg

\* C3 (amended): the same for a non-empty msg, a URI uri' the key store has
\* a key for, and a decryption cache entry of c's encapsulation that was not
\* populated under the hierarchy and pattern c was made for.
C3_WrongURIFresh ==
    \A th \in Threads :
        (/\ DecryptedOtherURI(th)
         /\ sent[op[th].from].msg # << >>
         /\ Covered(op[th].h, OpPattern(op[th]))) =>
            /\ ReturnedBytes(th)
            /\ loc[th].ent >= 1
            /\ heap[loc[th].ent].populated
            /\ heap[loc[th].ent].by
                   # <<sent[op[th].from].h, sent[op[th].from].pattern>> =>
                   loc[th].out # sent[op[th].from].msg

\* A Decrypt under another URI has returned bytes that are not the message.
C3_Witness ==
    \E th \in Threads :
        /\ DecryptedOtherURI(th) /\ ReturnedBytes(th)
        /\ sent[op[th].from].msg = <<7>>
        /\ loc[th].out = <<GarbageByte>>
        /\ heap[loc[th].ent].by = <<op[th].h, OpPattern(op[th])>>

\* The lengths of a decrypting call are wrong: the envelope of Decrypt is
\* shorter than EncryptedKeySize + BlockSize, or the key of
\* DecryptWithPattern is not EncryptedKeySize long or its message shorter
\* than BlockSize.
WrongLengths(o) ==
    \/ o.kind = "Decrypt" /\ Len(o.data) < EncryptedKeySize + BlockSize
    \/ /\ o.kind = "DecryptWithPattern"
       /\ (Len(o.encKey) # EncryptedKeySize \/ Len(o.encMsg) < BlockSize)

\* The step of thread th leaves the cache, its entries, and the counts of
\* params-reader and key-store calls as they were.
ClientStateUntouched ==
    /\ cache' = cache /\ heap' = heap /\ encaps' = encaps
    /\ calls'.params = calls.params /\ calls'.store = calls.store

\* A call with wrong lengths returns an error at once, the ClientState
\* untouched.
LengthErrorStep ==
    \A th \in Threads :
        (pc[th] = "idle" /\ pc'[th] # "idle" /\ WrongLengths(op'[th])) =>
            pc'[th] = "done" /\ loc'[th].err /\ ClientStateUntouched

\* C4 (amended): Decrypt returns an error when the envelope is shorter than
\* EncryptedKeySize + BlockSize and DecryptWithPattern whenever
\* len(encryptedKey) != EncryptedKeySize or len(encryptedMessage) < BlockSize,
\* and then no cache entry is looked up or created and the key store is not
\* called.
C4_LengthErrors == [][LengthErrorStep]_vars

\* C4 (as claimed): the same, and DecryptWithPattern returns an error in no
\* other case.
C4_LengthErrorsOnly ==
    /\ [][LengthErrorStep]_vars
    /\ [](\A th \in Threads :
             (pc[th] = "done" /\ op[th].kind = "DecryptWithPattern"
              /\ loc[th].err) => WrongLengths(op[th]))

\* DecryptWithPattern has returned the error for a message one byte short,
\* on a ClientState with cached entries.
C4_Witness ==
    \E th \in Threads :
        /\ pc[th] = "done" /\ op[th].kind = "DecryptWithPattern"
        /\ Len(op[th].encKey) = EncryptedKeySize
        /\ Len(op[th].encMsg) = BlockSize - 1
        /\ loc[th].err
        /\ Len(cache) = CacheCapacity

\* The URI has a segment "$", or a segment "*" that is not the last.
InvalidURI(uri) ==
    LET segments == FilterEmpty(Split(uri))
    IN  \E i \in 1..Len(segments) :
            \/ segments[i] = <<"$">>
            \/ segments[i] = <<"*">> /\ i # Len(segments)

\* C5: Encrypt and Decrypt return an error for a URI with a segment "$" or
\* a "*" segment that is not the last, and leave the ClientState unchanged:
\* no cache entry made or modified, no key-store or params call.
C5_InvalidURI ==
    [][\A th \in Threads :
          (/\ pc[th] = "idle" /\ pc'[th] # "idle"
           /\ op'[th].kind \in {"Encrypt", "Decrypt"}
           /\ InvalidURI(op'[th].uri)) =>
              pc'[th] = "done" /\ loc'[th].err /\ ClientStateUntouched]_vars

\* Decrypt has returned an error for the URI "*/a", on a ClientState with a
\* full cache.
C5_Witness ==
    \E th \in Threads :
        /\ pc[th] = "done" /\ op[th].kind = "Decrypt"
        /\ op[th].uri = URI_star
        /\ loc[th].err
        /\ Len(cache) = CacheCapacity

(***************************************************************************)
(* Time path marshalling and checkTime                                     *)
(***************************************************************************)
Zeros(n) == [i \in 1..n |-> 0]

\* TimeToBytes keeping only the low byte of each quantity.
TimeToBytes_LowByte(tp) ==
    <<Len(tp) % ByteMod>>
        \o Concat([i \in 1..Len(tp) |-> <<tp[i][1], tp[i][2], 0>>])

\* TimeToBytes: a buffer of 1 + (2 * length + 1) bytes, length the bytes of
\* all components (1 byte for the empty path), holding the count and then
\* the components three bytes apart; the rest stays zero.
TimeToBytes(tp) ==
    LET length == Len(Concat(tp))
        bytelen == IF length = 0 THEN 0 ELSE 2 * length + 1
        used == <<Len(tp) % ByteMod>>
                    \o Concat([i \in 1..Len(tp) |-> SubSeq(tp[i], 1, 3)])
    IN  used \o Zeros(1 + bytelen - Len(used))

\* TimeFromBytes: marshalled[0] components of three bytes each; slicing past
\* the buffer panics.
TimeFromBytes(marshalled) ==
    IF Len(marshalled) = 0 THEN [panic |-> TRUE, path |-> << >>]
    ELSE LET num == marshalled[1]
         IN  IF 1 + 3 * num > Len(marshalled)
             THEN [panic |-> TRUE, path |-> << >>]
             ELSE [panic |-> FALSE,
                   path |-> [idx \in 1..num |->
                                SubSeq(marshalled, 3 * idx - 1, 3 * idx + 1)]]

\* checkTime on a timestamp, and the marshalling round trip on the first n
\* components of its time path.
checkTime(t, n) ==
    LET parsed == ParseTime(t)
    IN  IF parsed.err
        THEN [done |-> TRUE, err |-> TRUE]
        ELSE LET prefix == SubSeq(parsed.path, 1, n)
             IN  [done |-> TRUE, err |-> FALSE,
                  path |-> parsed.path,
                  prefix |-> prefix,
                  marshalled |-> TimeToBytes(prefix),
                  back |-> TimeFromBytes(TimeToBytes(prefix))]

\* Timestamps in and around the supported years, and years that are 2^16
\* away from a supported one.
CheckYears ==
    {MinYear - 1, MinYear, MinYear + 1, MaxYear - 2, MaxYear, MaxYear + 1,
     MinYear + Uint16Mod, MaxYear - Uint16Mod}

CheckDays == {1, 5, 6, 25, 26, 28, 29, 30, 31}

CheckHours == {0, 5, 6, 11, 12, 18, 23}

CheckTimes ==
    {t \in [y : CheckYears, mo : MinMonth..MaxMonth, d : CheckDays,
            h : CheckHours, mi : {0}] :
        t.d <= DaysInMonth(t.y, t.mo)}

InitCheckTime ==
    /\ trIn \in [t : CheckTimes, n : 0..MaxTimeLength]
    /\ trRes = NoResult
    /\ IdleURI /\ IdleDelegate /\ IdleClient

CheckTimeStep ==
    /\ ~ trRes.done
    /\ trRes' = checkTime(trIn.t, trIn.n)
    /\ UNCHANGED <<trIn, uvars, dvars, cvars>>

NextCheckTime == CheckTimeStep

SpecCheckTime == InitCheckTime /\ [][NextCheckTime]_vars

(***************************************************************************)
(* Properties of ParseTime and time marshalling (under SpecCheckTime)      *)
(***************************************************************************)
\* The six quantities the claim gives for a timestamp.
ClaimedQuantities(t) ==
    LET fd == (t.d - 1) \div 5 + 1
    IN  <<t.y, t.mo, IF fd < 6 THEN fd ELSE 6, t.d, t.h \div 6 + 1, t.h>>

\* A parsed path has these six quantities, at positions 0..5, each within
\* TimeComponentBounds of the components before it.
ParsedAs(tp, q) ==
    /\ Len(tp) = MaxTimeLength
    /\ Quantities(tp) = q
    /\ \A i \in 1..Len(tp) :
          /\ tp[i][1] = i - 1
          /\ LET b == TimeComponentBounds(SubSeq(tp, 1, i - 1), i - 1)
             IN  b[1] <= q[i] /\ q[i] <= b[2]

ParsedInRange ==
    (trRes.done /\ trIn.t.y \in MinYear..MaxYear) =>
        ~ trRes.err /\ ParsedAs(trRes.path, ClaimedQuantities(trIn.t))

\* C11 (as claimed): for a timestamp whose UTC year is in 2015..2050
\* ParseTime succeeds with the six components [year, month, five-day index,
\* day, six-hour index, hour], five-day index min(6, (day-1)/5 + 1),
\* six-hour index hour/6 + 1, each within TimeComponentBounds of its prefix;
\* for a year outside 2015..2050 it returns an error.
C11_ParseTime ==
    /\ ParsedInRange
    /\ (trRes.done /\ trIn.t.y \notin MinYear..MaxYear) => trRes.err

\* C12: TimeFromBytes(TimeToBytes(tp)) has the length of tp and each
\* component byte-equal to tp's, for time paths of 0 to 6 components.
C12_TimeRoundTrip ==
    (trRes.done /\ ~ trRes.err) =>
        /\ ~ trRes.back.panic
        /\ Len(trRes.back.path) = Len(trRes.prefix)
        /\ \A i \in 1..Len(trRes.prefix) :
              trRes.back.path[i] = trRes.prefix[i]

\* A full path of the last day of a leap February has gone through the
\* round trip; its year needs both bytes of the quantity.
C12_Witness ==
    /\ trRes.done /\ ~ trRes.err
    /\ trIn.n = MaxTimeLength /\ trIn.t.mo = 2 /\ trIn.t.d = 29
    /\ Len(trRes.back.path) = MaxTimeLength
    /\ Quantity(trRes.back.path[1]) = trIn.t.y
    /\ trIn.t.y >= ByteMod

(***************************************************************************)
(* Decoding patterns, and checkPattern on two URIs and two time paths      *)
(***************************************************************************)
\* The slots up to the last one that is not nil.
UpToLastBound(from) ==
    LET bound == {j \in 1..Len(from) : Len(from[j]) # 0}
        last == IF bound = {} THEN 0
                ELSE CHOOSE j \in bound : \A k \in bound : k <= j
    IN  SubSeq(from, 1, last)

DecodeURIPathFrom(from) == UpToLastBound(from)

\* DecodeTimePathFrom returning all its slots, free ones too.
DecodeTimePathFrom_AllSlots(from) == from

DecodeTimePathFrom(from) == UpToLastBound(from)

\* DecodePattern: the URI path of the slots before the last MaxTimeLength
\* and the time path of the last MaxTimeLength.
DecodePattern(pattern) ==
    IF Len(pattern) < MaxTimeLength
    THEN [panic |-> TRUE, uri |-> << >>, time |-> << >>]
    ELSE [panic |-> FALSE,
          uri |-> DecodeURIPathFrom(
                      SubSeq(pattern, 1, Len(pattern) - MaxTimeLength)),
          time |-> DecodeTimePathFrom(
                       SubSeq(pattern, Len(pattern) - MaxTimeLength + 1,
                              Len(pattern)))]

\* checkPattern on a URI and the first n components of a timestamp's time
\* path: parse, encode into an all-free pattern, decode; and the patterns
\* the default encoder makes of the two paths for decryption and signing.
checkPattern(uri, t, n) ==
    LET uripath == ParseURI(uri)
        timepath == SubSeq(ParseTime(t).path, 1, n)
        enc == EncodePattern(uripath.path, timepath, MakePattern(ClientEncoder))
    IN  [uri |-> uri, err |-> uripath.err,
         up |-> uripath.path, tp |-> timepath,
         enc |-> enc,
         dec |-> DecodePattern(enc.pattern),
         decrypt |-> Encode(ClientEncoder, uripath.path, timepath,
                            PatternTypeDecryption),
         sign |-> Encode(ClientEncoder, uripath.path, timepath,
                         PatternTypeSigning)]

PatternURIs ==
    {<<"a">>, <<"b">>, <<"a", "/", "b">>, <<"a", "/", "a">>,
     <<"a", "/", "*">>, <<"b", "/", "*">>, <<"a", "/", "b", "/", "*">>,
     <<"*">>, <<"+">>, <<"a", "/", "+">>, <<"+", "/", "a">>,
     <<"a", "/", "+", "/", "*">>, <<"+", "/", "*">>,
     <<"a", "/", "+", "/", "a", "/", "*">>,
     <<"a", "/", "b", "/", "a">>, <<"a", "/", "$">>}

PatternTimes ==
    {ClientTime1, [y |-> 2016, mo |-> 2, d |-> 29, h |-> 23, mi |-> 0]}

PatternTimeLengths == {0, 1, MaxTimeLength}

PatternInputs ==
    [uri : PatternURIs, t : PatternTimes, n : PatternTimeLengths]

InitPattern ==
    /\ uriIn \in [a : PatternInputs, b : PatternInputs]
    /\ uriRes = NoResult
    /\ IdleTime /\ IdleDelegate /\ IdleClient

CheckPatternStep ==
    /\ ~ uriRes.done
    /\ uriRes' = [done |-> TRUE,
                  a |-> checkPattern(uriIn.a.uri, uriIn.a.t, uriIn.a.n),
                  b |-> checkPattern(uriIn.b.uri, uriIn.b.t, uriIn.b.n)]
    /\ UNCHANGED <<uriIn, tvars, dvars, cvars>>

NextPattern == CheckPatternStep

SpecPattern == InitPattern /\ [][NextPattern]_vars

(***************************************************************************)
(* Properties of pattern encoding and matching (under SpecPattern)         *)
(***************************************************************************)
\* The side was parsed and encoded.
Encoded(x) == ~ x.err /\ ~ x.enc.panic

Decoded(x) ==
    ~ x.dec.panic /\ x.dec.uri = x.up /\ x.dec.time = x.tp

\* C13 (as claimed): for every URI path of ParseURI, with '+' components in
\* any position, and every time path, EncodePattern into an all-free
\* pattern of length >= len(up) + 6 and then DecodePattern give back the
\* URI path and the time path.
C13_PatternRoundTrip ==
    uriRes.done => (Encoded(uriRes.a) => Decoded(uriRes.a))

\* C13 (amended): the same for URI paths whose last component is not free
\* (a prefix URI ending in "+/*" comes back without its trailing free
\* components).
C13_PatternRoundTripBoundLast ==
    uriRes.done =>
        ((/\ Encoded(uriRes.a)
          /\ (Len(uriRes.a.up) = 0
              \/ Len(uriRes.a.up[Len(uriRes.a.up)]) # 0)) =>
            Decoded(uriRes.a))

\* The prefix URI "a/+/a/*" and a one-component time path have come back
\* from the pattern.
C13_Witness ==
    /\ uriRes.done /\ Encoded(uriRes.a) /\ Decoded(uriRes.a)
    /\ Len(uriRes.a.up) = 3 /\ Len(uriRes.a.up[2]) = 0
    /\ Len(uriRes.a.tp) = 1
    /\ Len(uriRes.a.dec.uri) = 3 /\ Len(uriRes.a.dec.time) = 1

\* The segments of a URI string, without the final "*" of a prefix URI.
IsPrefixURI(uri) ==
    LET segments == FilterEmpty(Split(uri))
    IN  Len(segments) > 0 /\ segments[Len(segments)] = <<"*">>

Segments(uri) ==
    LET segments == FilterEmpty(Split(uri))
    IN  IF IsPrefixURI(uri) THEN SubSeq(segments, 1, Len(segments) - 1)
        ELSE segments

IsPrefixOf(s, t) == Len(s) <= Len(t) /\ SubSeq(t, 1, Len(s)) = s

NoPlus(uri) == \A i \in 1..Len(uri) : uri[i] # "+"

\* URI matching of side x against side y, as the claim gives it.
URIMatching(x, y) ==
    (/\ Encoded(x) /\ Encoded(y) /\ NoPlus(x.uri) /\ NoPlus(y.uri)
     /\ x.tp = y.tp) =>
        LET m == Matches(x.enc.pattern, y.enc.pattern)
        IN  /\ ~ m.panic
            /\ IF IsPrefixURI(x.uri)
               THEN m.ok <=> IsPrefixOf(Segments(x.uri), Segments(y.uri))
               ELSE m.ok => (~ IsPrefixURI(y.uri)
                             /\ Segments(y.uri) = Segments(x.uri))

\* C14: for URIs u, v without '+', the same time path and patterns of equal
\* length, the pattern of a prefix URI u/* Matches the pattern of v iff u's
\* segments are a prefix of v's, and the pattern of a full URI u Matches
\* the pattern of v only if v is the same full URI.
C14_URIMatching ==
    uriRes.done =>
        URIMatching(uriRes.a, uriRes.b) /\ URIMatching(uriRes.b, uriRes.a)

\* The pattern of "a/*" matches the pattern of "a/b" and not the other way
\* round.
C14_Witness ==
    /\ uriRes.done /\ Encoded(uriRes.a) /\ Encoded(uriRes.b)
    /\ uriRes.a.uri = <<"a", "/", "*">> /\ uriRes.b.uri = <<"a", "/", "b">>
    /\ uriRes.a.tp = uriRes.b.tp /\ Len(uriRes.a.tp) = MaxTimeLength
    /\ Matches(uriRes.a.enc.pattern, uriRes.b.enc.pattern).ok
    /\ ~ Matches(uriRes.b.enc.pattern, uriRes.a.enc.pattern).ok

Separated(x, y) ==
    /\ ~ Matches(x.decrypt.pattern, y.sign.pattern).ok
    /\ ~ Matches(x.sign.pattern, y.decrypt.pattern).ok

Fits(x) == ~ x.err /\ ~ x.decrypt.panic /\ ~ x.sign.panic

HasBoundSlot(p) == \E i \in 1..Len(p) : Len(p[i]) # 0

\* C17 (as claimed): for all URI paths and time paths that fit the encoder,
\* Encode(up, tp, decrypt) never Matches Encode(up', tp', sign), and
\* Encode(up, tp, sign) never Matches Encode(up', tp', decrypt).
C17_DomainSeparation ==
    uriRes.done =>
        ((Fits(uriRes.a) /\ Fits(uriRes.b)) => Separated(uriRes.a, uriRes.b))

\* Apart from the all-free pattern the two types are separated: a pattern
\* with a bound slot matches no pattern of the other type.
SeparatedWhenBound ==
    uriRes.done =>
        ((/\ Fits(uriRes.a) /\ Fits(uriRes.b)
          /\ HasBoundSlot(uriRes.a.enc.pattern)) =>
            Separated(uriRes.a, uriRes.b))


(***************************************************************************)
(* Patterns of every length: marshalling and attribute lists.              *)
(***************************************************************************)
MarshalledTypeInvalid == 0

MarshalledTypePattern == 1

MarshalledLengthLength == 4

\* getLength: binary.LittleEndian.Uint32 of the first four bytes.
getLength(buf) ==
    buf[1] + ByteMod * (buf[2] + ByteMod * (buf[3] + ByteMod * buf[4]))

\* marshalAppendLength
marshalAppendLength(length, buf) == buf \o Uint32Bytes(length)

\* marshalAppendWithLength of a marshallableBytes: the length, then the bytes.
marshalAppendWithLength(b, buf) == marshalAppendLength(Len(b), buf) \o b

\* The index one past the last nonempty component, written as the whole
\* length of the pattern.
OnePastLast_Length(p) == Len(p)

\* The index one past the last nonempty component (0 when there is none).
OnePastLast(p) ==
    LET bound == {j \in 1..Len(p) : Len(p[j]) # 0}
    IN  IF bound = {} THEN 0 ELSE CHOOSE j \in bound : \A k \in bound : k <= j

\* The components of Pattern.Marshal from index i (counted from 0) up to last.
RECURSIVE MarshalComponents(_, _, _, _)
MarshalComponents(p, i, last, buf) ==
    IF i = last THEN buf
    ELSE MarshalComponents(p, i + 1, last,
            IF Len(p[i + 1]) # 0
            THEN marshalAppendWithLength(p[i + 1], marshalAppendLength(i, buf))
            ELSE buf)

\* Pattern.Marshal: the type byte, the length of the pattern, the index one
\* past the last nonempty component, then every nonempty component before
\* that index as its index, its length and its bytes.
PatternMarshal(p) ==
    LET last == OnePastLast(p)
    IN  MarshalComponents(p, 0, last,
            marshalAppendLength(last,
                marshalAppendLength(Len(p), <<MarshalledTypePattern>>)))

Drop(buf, n) == SubSeq(buf, n + 1, Len(buf))

\* The loop of Pattern.Unmarshal: an index, a length and that many bytes at a
\* time, until the index read is last.  A buffer that ends early, or an index
\* outside the pattern, is a slice or index out of range (the capacity of the
\* buffer is taken to be its length).
RECURSIVE UnmarshalComponents(_, _, _, _)
UnmarshalComponents(buf, pattern, i, last) ==
    IF i = last THEN [panic |-> FALSE, ok |-> TRUE, pattern |-> pattern]
    ELSE IF Len(buf) < 2 * MarshalledLengthLength
    THEN [panic |-> TRUE, ok |-> FALSE, pattern |-> << >>]
    ELSE LET index == getLength(buf)
             length == getLength(Drop(buf, MarshalledLengthLength))
             rest == Drop(buf, 2 * MarshalledLengthLength)
         IN  IF Len(rest) < length \/ index >= Len(pattern)
             THEN [panic |-> TRUE, ok |-> FALSE, pattern |-> << >>]
             ELSE UnmarshalComponents(Drop(rest, length),
                      [pattern EXCEPT ![index + 1] = SubSeq(rest, 1, length)],
                      index, last)

\* Pattern.Unmarshal
PatternUnmarshal(marshalled) ==
    IF Len(marshalled) = 0
    THEN [panic |-> TRUE, ok |-> FALSE, pattern |-> << >>]
    ELSE IF marshalled[1] # MarshalledTypePattern
    THEN [panic |-> FALSE, ok |-> FALSE, pattern |-> << >>]
    ELSE IF Len(marshalled) < 1 + 2 * MarshalledLengthLength
    THEN [panic |-> TRUE, ok |-> FALSE, pattern |-> << >>]
    ELSE LET buf == Drop(marshalled, 1)
             patternLength == getLength(buf)
             last == getLength(Drop(buf, MarshalledLengthLength)) - 1
         IN  UnmarshalComponents(Drop(buf, 2 * MarshalledLengthLength),
                 [k \in 1..patternLength |-> << >>], 0 - 1, last)

\* Patterns of up to MaxPatternLength slots, each free or one of a few byte
\* strings.
MaxPatternLength == 3

SlotValues == {<< >>, <<97>>, <<98>>, <<0, 97>>}

SmallPatterns == UNION {[1..n -> SlotValues] : n \in 0..MaxPatternLength}

InitPatterns ==
    /\ uriIn \in [p : SmallPatterns, q : SmallPatterns]
    /\ uriRes = NoResult
    /\ IdleTime /\ IdleDelegate /\ IdleClient

\* One pair of patterns: p marshalled and read back, and the attribute list
\* of p computed directly and from q and the attribute list of q.
PatternsStep ==
    /\ ~ uriRes.done
    /\ uriRes' = [done |-> TRUE,
                  marshalled |-> PatternMarshal(uriIn.p),
                  unmarshalled |-> PatternUnmarshal(PatternMarshal(uriIn.p)),
                  attrs |-> ToAttrs(uriIn.p),
                  equals |-> Equals(uriIn.p, uriIn.q),
                  ref |-> ToAttrsWithReference(uriIn.p, uriIn.q, ToAttrs(uriIn.q))]
    /\ UNCHANGED <<uriIn, tvars, dvars, cvars>>

NextPatterns == PatternsStep

SpecPatterns == InitPatterns /\ [][NextPatterns]_vars

\* C15: whenever ToAttrsWithReference(P, Q, ToAttrs(Q)) says the patterns are
\* equal, Equals(P, Q) holds, and the attribute list it returns is always the
\* attribute list ToAttrs(P).
C15_DeltaAttrs ==
    uriRes.done =>
        /\ ~ uriRes.ref.panic
        /\ uriRes.ref.equal => uriRes.equals
        /\ uriRes.ref.attrs = uriRes.attrs

\* For patterns of one length the delta attribute list is as C15 says.
DeltaAttrsSameLength ==
    (uriRes.done /\ Len(uriIn.p) = Len(uriIn.q)) => C15_DeltaAttrs

\* C16: Unmarshal(Marshal(p)) succeeds for every pattern p and gives a pattern
\* of the same length with the same bytes in every slot.
C16_PatternMarshalRoundTrip ==
    uriRes.done =>
        /\ ~ uriRes.unmarshalled.panic
        /\ uriRes.unmarshalled.ok
        /\ Len(uriRes.unmarshalled.pattern) = Len(uriIn.p)
        /\ \A i \in 1..Len(uriIn.p) : uriRes.unmarshalled.pattern[i] = uriIn.p[i]

\* A pattern with a free slot before a bound one and a free slot at its end,
\* read back.
C16_Witness ==
    /\ uriRes.done
    /\ Len(uriIn.p) = MaxPatternLength
    /\ Len(uriIn.p[1]) = 0
    /\ Len(uriIn.p[2]) # 0
    /\ Len(uriIn.p[Len(uriIn.p)]) = 0
    /\ uriRes.unmarshalled.ok
    /\ uriRes.unmarshalled.pattern = uriIn.p


(***************************************************************************)
(* Properties of DelegateParsed and DelegatePatterns (under SpecDelegate)  *)
(***************************************************************************)
\* TimeRange for every start and end of the delegation runs.
DelegateRanges ==
    [c \in {<<st, en>> : st \in DelegateStarts,
                        en \in UNION {DelegateEnds(x) : x \in DelegateStarts}} |->
        IF c[2] \in DelegateEnds(c[1]) THEN TimeRange(c[1], c[2])
        ELSE [err |-> TRUE, paths |-> << >>]]

DelegateRange == DelegateRanges[<<dgIn.start, dgIn.end>>]

\* The pattern of a time path of the call, of either type.
TypedPattern(timePath, patternType) ==
    Encode(NewDefaultPatternEncoder(MaxURILength), ParseURI(dgIn.uri).path,
           timePath, patternType).pattern

\* ps holds the patterns of the time paths tps in the order DelegateParsed
\* is said to give them under the permission perm.
InOrder(ps, tps, perm) ==
    LET n == Len(tps)
        dec == [i \in 1..n |-> TypedPattern(tps[i], PatternTypeDecryption)]
        sig == [i \in 1..n |-> TypedPattern(tps[i], PatternTypeSigning)]
    IN  /\ perm = DecryptPermission + SignPermission =>
            /\ Len(ps) = 2 * n
            /\ \A i \in 0..(n - 1) :
                   IF i % 2 = 0
                   THEN ps[2 * i + 1] = dec[i + 1] /\ ps[2 * i + 2] = sig[i + 1]
                   ELSE ps[2 * i + 1] = sig[i + 1] /\ ps[2 * i + 2] = dec[i + 1]
        /\ perm = DecryptPermission => ps = dec
        /\ perm = SignPermission => ps = sig

\* C18: with both permissions and n time paths the delegation holds 2n
\* patterns, the pair of the i-th time path (counted from 0) at places 2i and
\* 2i+1, decryption first for even i and signing first for odd i; with one
\* permission it holds the n patterns of that type in the order of the time
\* paths.
C18_PatternOrder ==
    Delegated =>
        InOrder(dgRes.patterns, DelegateRange.paths, dgIn.perm)

\* A delegation of both permissions over four time paths or more, the pair
\* of the second one swapped, and the types telling the patterns apart.
C18_Witness ==
    /\ Delegated
    /\ dgIn.perm = DecryptPermission + SignPermission
    /\ Len(dgRes.patterns) >= 8
    /\ LET tps == DelegateRange.paths
       IN  /\ dgRes.patterns[3] = TypedPattern(tps[2], PatternTypeSigning)
           /\ dgRes.patterns[4] = TypedPattern(tps[2], PatternTypeDecryption)
    /\ dgRes.patterns[3] # dgRes.patterns[4]

\* The call got as far as DelegatePatterns.
Requested ==
    /\ dgIn # NoInput /\ dgRes.done /\ ~ dgRes.panic
    /\ ~ ParseURI(dgIn.uri).err
    /\ ~ DelegateRange.err

\* The patterns DelegatePatterns is asked for.
RequestedPatterns ==
    LET tps == DelegateRange.paths
    IN  DelegateParsedLoop(NewDefaultPatternEncoder(MaxURILength),
                           ParseURI(dgIn.uri).path, tps, dgIn.perm,
                           0, << >>).patterns

\* res is what C19 says of a call for the patterns req on the key store ks.
AllOrNothing(res, ks, req) ==
    LET answer == [i \in 1..Len(req) |-> KeyForPattern(ks, i, TestHierarchy, req[i])]
    IN  IF \E i \in 1..Len(req) : answer[i].err \/ ~ answer[i].key.held
        THEN res.err /\ res.isNil /\ res.patterns = << >> /\ res.keys = << >>
        ELSE /\ ~ res.err /\ ~ res.isNil
             /\ res.patterns = req
             /\ Len(res.keys) = Len(res.patterns)
             /\ \A i \in 1..Len(res.keys) :
                    /\ res.keys[i].from = answer[i].key
                    /\ res.keys[i].from.held
                    /\ res.keys[i].from.pattern = res.patterns[i]
                    /\ res.keys[i].attrs = ToAttrs(res.patterns[i])

\* C19: when the key store answers with an error or with no key for any one
\* of the requested patterns, the call returns an error and no delegation;
\* otherwise it returns a delegation of the requested patterns with as many
\* keys, the i-th key qualified from the key the store gave for the i-th
\* pattern.
C19_AllOrNothing ==
    Requested => AllOrNothing(dgRes, dgRes.ks, RequestedPatterns)

\* The store had the keys of the first two patterns and none for the third:
\* no delegation came back.
C19_Witness ==
    /\ Requested
    /\ Len(RequestedPatterns) >= 4
    /\ dgRes.ks.kind = "none" /\ dgRes.ks.at = MaxFailAt
    /\ dgRes.err /\ dgRes.isNil


(***************************************************************************)
(* Independence of the encryption entries (under Spec)                     *)
(***************************************************************************)
\* The encapsulations made into heap entry e, and the last of them.
MadeInto(e) == {i \in 1..Len(encaps) : encaps[i].ent = e}

LastOf(made) == CHOOSE i \in made : \A j \in made : j <= i

\* Entry e holds what the last encapsulation made into it left there, and
\* only calls on one (hierarchy, URI) made encapsulations into it, a new one
\* only after the pattern changed.
EntryKeptByOwner(e) ==
    LET made == MadeInto(e)
    IN  /\ \A i, j \in made : SameURI(i, j)
        /\ IF made = {}
           THEN heap[e].pattern = << >> /\ heap[e].key = 0 /\ heap[e].enc = 0
           ELSE LET last == LastOf(made)
                IN  /\ heap[e].pattern = encaps[last].pattern
                    /\ heap[e].key = last
                    /\ heap[e].enc = last
        /\ \A i, j \in made :
               (i < j /\ encaps[i].pattern = encaps[j].pattern) =>
                   \E k \in made : i < k /\ k < j
                                   /\ encaps[k].pattern # encaps[i].pattern

\* The entry the cache holds for the (hierarchy, URI) of encapsulation i
\* (0 when it holds none).
CachedEntryOf(i) ==
    LET at == CacheIndex(encryptionCacheKey(encaps[i].h, encaps[i].up))
    IN  IF at = {} THEN 0 ELSE cache[CHOOSE j \in at : TRUE].ent

\* No call of Decrypt has got as far as the cache.
OnlyEncrypts == \A e \in 1..Len(heap) : heap[e].kind = "enc"

EntryDescribesKey(e) ==
    \/ heap[e].pattern = << >>
    \/ /\ heap[e].attrs = ToAttrs(heap[e].pattern)
       /\ heap[e].precomputed.fits
       /\ heap[e].precomputed.attrs = heap[e].attrs
       /\ heap[e].enc \in 1..Len(encaps)
       /\ encaps[heap[e].enc].under = heap[e].precomputed
       /\ encaps[heap[e].enc].under.h = encaps[heap[e].enc].h
       /\ encaps[heap[e].enc].key = heap[e].key

\* Output i of Encrypt carries an encapsulation made for the pattern of its
\* call and a payload encrypted under the key in that encapsulation.
OutputOfOwnPattern(i) ==
    /\ sent[i].enc \in 1..Len(encaps)
    /\ encaps[sent[i].enc].under.fits
    /\ encaps[sent[i].enc].under.attrs = ToAttrs(sent[i].pattern)
    /\ encaps[sent[i].enc].under.h = sent[i].h
    /\ EncryptedKeyOf(sent[i].env) = Marshal(sent[i].enc)
    /\ EncryptedMessageOf(sent[i].env)
           = AESEncrypt(sent[i].msg, encaps[sent[i].enc].key, i)

\* C21: every encryption entry no writer holds is empty or describes its
\* key (attribute list of its pattern, prepared list of that attribute list,
\* encapsulation under it of the key held), and every output of Encrypt
\* carries an encapsulation made for the pattern of its call and a payload
\* under the key in it.
C21_EntryConsistent ==
    /\ \A e \in 1..Len(heap) :
           (heap[e].kind = "enc" /\ heap[e].writer = NoThread) =>
               EntryDescribesKey(e)
    /\ \A i \in 1..Len(sent) : OutputOfOwnPattern(i)

\* Two calls on one URI with different patterns ran together: the entry was
\* filled, then adjusted, and the outputs left in the other order.
C21_Witness ==
    /\ Len(encaps) = 2 /\ Len(sent) = 2
    /\ encaps[1].ent = encaps[2].ent
    /\ encaps[1].pattern # encaps[2].pattern
    /\ sent[1].enc = 2 /\ sent[2].enc = 1
    /\ heap[encaps[2].ent].writer = NoThread
    /\ heap[encaps[2].ent].precomputed = encaps[2].under
    /\ heap[encaps[2].ent].precomputed.fits

(***************************************************************************)
(* Decrypt calls racing on one encapsulation                               *)
(***************************************************************************)
\* One call more than MaxOps, of fewer kinds: Encrypt on two URIs at one
\* time, and Decrypt of what they sent.
MaxRaceOps == 4

RaceEncryptCalls ==
    {[uri |-> URI_a, t |-> ClientTime1, msg |-> <<7>>],
     [uri |-> URI_b, t |-> ClientTime1, msg |-> << >>]}

RaceDecryptInputs ==
    {[uri |-> URI_a, t |-> ClientTime1, from |-> e.from, env |-> e.env] :
        e \in Envelopes}

CanStartRace(th) == pc[th] = "idle" /\ calls.started < MaxRaceOps

RaceEncrypt(th) == CanStartRace(th) /\ StartEncrypt(th, RaceEncryptCalls)

RaceDecrypt(th) == CanStartRace(th) /\ StartDecrypt(th, RaceDecryptInputs)

NextRace ==
    \E th \in Threads :
        \/ RaceEncrypt(th)
        \/ EncryptGetParams(th)
        \/ EncryptGetEntry(th)
        \/ EncryptRLock(th)
        \/ EncryptRead(th)
        \/ EncryptLock(th)
        \/ EncryptWrite(th)
        \/ EncryptSeal(th)
        \/ RaceDecrypt(th)
        \/ DecryptGetEntry(th)
        \/ DecryptRLock(th)
        \/ DecryptRead(th)
        \/ DecryptLock(th)
        \/ DecryptCheck(th)
        \/ DecryptKeyForPattern(th)
        \/ DecryptOpen(th)
        \/ Return(th)

SpecRace == Init /\ [][NextRace]_vars

\* The call of th is inside DecryptWithPattern and holds a cache entry.
HoldsDecryptionEntry(th) ==
    pc[th] \in {"d_rlock", "d_read", "d_lock", "d_check", "d_store", "d_open"}

\* Two calls inside DecryptWithPattern at once, both with the bytes of one
\* encapsulation.
Racing(t1, t2) ==
    /\ t1 # t2
    /\ HoldsDecryptionEntry(t1) /\ HoldsDecryptionEntry(t2)
    /\ OpKey(op[t1]) = OpKey(op[t2])

\* A call that has its symmetric key has the one stored in its entry.
CopiedCachedKey(th) ==
    pc[th] = "d_open" =>
        /\ heap[loc[th].ent].populated
        /\ loc[th].key = heap[loc[th].ent].key

\* C22 as stated: concurrent calls of DecryptWithPattern with the bytes of one
\* encapsulation work on one entry, into which at most one WKD-IBE decryption
\* is stored, and each of them copies the key cached there.
C22_SingleDecryption ==
    /\ \A t1, t2 \in Threads : Racing(t1, t2) => loc[t1].ent = loc[t2].ent
    /\ \A e \in 1..Len(heap) : heap[e].decryptions <= 1
    /\ \A th \in Threads : CopiedCachedKey(th)

\* C22: concurrent calls of DecryptWithPattern that got the same cache entry
\* store at most one WKD-IBE decryption into it, and each of them copies the
\* key cached there; two calls with the bytes of one encapsulation may hold
\* different entries once the cache has dropped the first between their
\* lookups.
C22_SingleDecryptionPerEntry ==
    /\ \A e \in 1..Len(heap) : heap[e].decryptions <= 1
    /\ \A th \in Threads : CopiedCachedKey(th)

\* Two racing calls on one entry both have the key of its one decryption.
C22_Witness ==
    \E t1, t2 \in Threads :
        /\ Racing(t1, t2)
        /\ pc[t1] = "d_open" /\ pc[t2] = "d_open"
        /\ loc[t1].ent = loc[t2].ent
        /\ heap[loc[t1].ent].decryptions = 1
        /\ loc[t1].key = loc[t2].key
        /\ calls.store = 1

(***************************************************************************)
(* Entry locks and the calls to the key store                              *)
(***************************************************************************)
\* The entries whose lock thread th holds, as reader or as writer.
LocksHeld(th) ==
    {e \in 1..Len(heap) : heap[e].writer = th \/ th \in heap[e].readers}

\* The call of th is at state.cache.Get of the hierarchy's parameters (whose
\* loader calls ParamsForHierarchy) or at state.store.KeyForPattern.
AtExternalCall(th) == pc[th] \in {"e_params", "d_store"}

\* The call of th is about to take an entry lock.
AtLockAcquisition(th) == pc[th] \in {"e_rlock", "e_lock", "d_rlock", "d_lock"}

\* C23: no thread holds an entry lock while a call to the key store or the
\* params reader is in progress, and none holds an entry lock while taking
\* another lock.
C23_NoLockAcrossIO ==
    \A th \in Threads :
        (AtExternalCall(th) \/ AtLockAcquisition(th)) => LocksHeld(th) = {}

(***************************************************************************)
(* A decryption that fails under the write lock                            *)
(***************************************************************************)
\* The call of th is under the write lock of its decryption entry, before
\* Unmarshal or before KeyForPattern.
UnderDecryptLock(th) == pc[th] \in {"d_check", "d_store"}

\* C24: a DecryptWithPattern that fails under the write lock (at Unmarshal or
\* at KeyForPattern) returns an error with the lock released, the entry still
\* unpopulated and its key as it was.
C24_FailureLeavesEntry ==
    [][\A th \in Threads :
          (UnderDecryptLock(th) /\ loc'[th].err) =>
              LET e == loc[th].ent
              IN  /\ pc'[th] = "done"
                  /\ heap[e].writer = th
                  /\ heap'[e].writer = NoThread
                  /\ ~ heap'[e].populated
                  /\ heap'[e].key = heap[e].key
                  /\ heap'[e].decryptions = heap[e].decryptions]_vars

\* One decryption entry, asked for its key twice: the first lookup failed and
\* left it unpopulated, the second stored the key.
C24_Witness ==
    /\ calls.store = 2
    /\ Cardinality({e \in 1..Len(heap) : heap[e].kind = "dec"}) = 1
    /\ \E e \in 1..Len(heap) :
          heap[e].kind = "dec" /\ heap[e].populated /\ heap[e].decryptions = 1

(***************************************************************************)
(* The decryption entries are written once                                 *)
(***************************************************************************)
\* The encapsulation the bytes unmarshal to.
EncapsulationOf(bytes) ==
    (CHOOSE u \in UnmarshalOutcomes(bytes) : u.ok).id

\* The populated decryption entries.
Populated == {e \in 1..Len(heap) : heap[e].kind = "dec" /\ heap[e].populated}

\* C25: a populated decryption entry keeps its key; a call that finds its
\* entry populated makes no key-store call; and the key a call decrypts the
\* payload with is the entry's, the decryption of the call's encapsulation
\* under the hierarchy and pattern of the call that populated the entry,
\* whatever the call's own pattern.
C25_WriteOnce ==
    [][/\ \A e \in Populated :
             /\ heap'[e].populated
             /\ heap'[e].key = heap[e].key
             /\ heap'[e].by = heap[e].by
       /\ \A th \in Threads :
             /\ pc'[th] = "d_store" => loc'[th].ent \notin Populated'
             /\ pc'[th] = "d_open" =>
                   LET entry == heap'[loc'[th].ent]
                   IN  /\ entry.populated
                       /\ loc'[th].key = entry.key
                       /\ entry.key =
                             WkdibeDecrypt(EncapsulationOf(OpKey(op'[th])),
                                           entry.by[1], entry.by[2])]_vars

\* A call with another pattern than the one its entry was populated under
\* has the cached key, after a single key-store call.
C25_Witness ==
    \E th \in Threads :
        /\ pc[th] = "d_open"
        /\ loc[th].ent \in Populated
        /\ heap[loc[th].ent].by[2] # loc[th].pattern
        /\ loc[th].key = heap[loc[th].ent].key
        /\ calls.store = 1

(***************************************************************************)
(* A new key whenever the pattern of an entry changes                      *)
(***************************************************************************)
\* The call of th is in the write section and finds its entry new or with
\* another pattern than its own.
FindsOtherPattern(th) ==
    /\ pc[th] = "e_write"
    /\ heap[loc[th].ent].pattern # loc[th].pattern

\* The keys and encapsulations made so far.
KeysMade == {encaps[i].key : i \in 1..Len(encaps)}

\* Outputs i and j of Encrypt are for one hierarchy and URI and for two
\* patterns.
PatternChanged(i, j) ==
    /\ sent[i].h = sent[j].h
    /\ sent[i].up = sent[j].up
    /\ sent[i].pattern # sent[j].pattern

\* C26: an Encrypt that finds, under the write lock, its entry new or with
\* another pattern makes one new encapsulation of a key not used before,
\* writes both over the entry's and takes them for its output; and two
\* outputs for one hierarchy and URI with different patterns share neither
\* encapsulation nor key.
C26_FreshOnChange ==
    [][/\ \A th \in Threads :
             (FindsOtherPattern(th) /\ pc'[th] # "e_write") =>
                 LET entry == heap'[loc[th].ent]
                 IN  /\ Len(encaps') = Len(encaps) + 1
                     /\ entry.key \notin KeysMade
                     /\ entry.enc = Len(encaps')
                     /\ entry.pattern = loc[th].pattern
                     /\ encaps'[entry.enc].key = entry.key
                     /\ encaps'[entry.enc].pattern = loc[th].pattern
                     /\ loc'[th].key = entry.key
                     /\ loc'[th].enc = entry.enc
       /\ \A i, j \in 1..Len(sent') :
             PatternChanged(i, j)' =>
                 /\ sent'[i].enc # sent'[j].enc
                 /\ sent'[i].key # sent'[j].key]_vars

\* Three outputs of one entry: the pattern of the first, another, and the
\* pattern of the first again, each with an encapsulation and key of its own.
C26_Witness ==
    \E i, j, k \in 1..Len(sent) :
        /\ i < j /\ j < k
        /\ PatternChanged(i, j) /\ PatternChanged(j, k)
        /\ sent[i].pattern = sent[k].pattern
        /\ encaps[sent[i].enc].ent = encaps[sent[j].enc].ent
        /\ encaps[sent[j].enc].ent = encaps[sent[k].enc].ent
        /\ Cardinality({sent[i].enc, sent[j].enc, sent[k].enc}) = 3
        /\ Cardinality({sent[i].key, sent[j].key, sent[k].key}) = 3

(***************************************************************************)
(* A failed load of the public parameters                                  *)
(***************************************************************************)
\* The cache holds the parameters of the hierarchy of the call of th.
ParamsCached(th) == CacheIndex(hierarchyCacheKey(op[th].h)) # {}

C28_TimeToBytesLength ==
    (trRes.done /\ ~ trRes.err) =>
        LET n == Len(trRes.prefix)
        IN  /\ Len(trRes.marshalled) = 1 + 3 * n
            /\ trRes.marshalled[1] = n
            /\ SubSeq(trRes.marshalled, 2, 1 + 3 * n) = Concat(trRes.prefix)

(***************************************************************************)
(* Unmarshal on byte strings that are no encoding                          *)
(***************************************************************************)
MarshalledTypeDelegation == 2

\* unmarshalPrefixWithLengthRaw: a length and that many bytes off the front of
\* buf; nil bytes for the length 0.  A buffer shorter than the length field
\* or than the length read is a slice out of range.
unmarshalPrefixWithLengthRaw(buf) ==
    IF Len(buf) < MarshalledLengthLength
    THEN [panic |-> TRUE, isNil |-> TRUE, raw |-> << >>, rest |-> << >>]
    ELSE LET length == getLength(buf)
             rest == Drop(buf, MarshalledLengthLength)
         IN  IF length = 0
             THEN [panic |-> FALSE, isNil |-> TRUE, raw |-> << >>, rest |-> rest]
             ELSE IF Len(rest) < length
             THEN [panic |-> TRUE, isNil |-> TRUE, raw |-> << >>, rest |-> << >>]
             ELSE [panic |-> FALSE, isNil |-> FALSE,
                   raw |-> SubSeq(rest, 1, length), rest |-> Drop(rest, length)]

\* The marshalled parameters and the marshalled key of the delegations below,
\* and the library's Unmarshal, which takes these and refuses other bytes.
ParamsBytes == <<80, 80>>

KeyBytes == <<75>>

ParamsUnmarshal(b) == b = ParamsBytes

SecretKeyUnmarshal(b) == b = KeyBytes

\* The loop of Delegation.Unmarshal: length times a pattern and a key.
RECURSIVE UnmarshalPatternsAndKeys(_, _, _)
UnmarshalPatternsAndKeys(buf, i, length) ==
    IF i = length THEN [panic |-> FALSE, ok |-> TRUE]
    ELSE LET pat == unmarshalPrefixWithLengthRaw(buf)
         IN  IF pat.panic THEN [panic |-> TRUE, ok |-> FALSE]
             ELSE LET read == IF pat.isNil
                              THEN [panic |-> FALSE, ok |-> TRUE]
                              ELSE PatternUnmarshal(pat.raw)
                  IN  IF read.panic THEN [panic |-> TRUE, ok |-> FALSE]
                      ELSE IF ~ read.ok THEN [panic |-> FALSE, ok |-> FALSE]
                      ELSE LET key == unmarshalPrefixWithLengthRaw(pat.rest)
                           IN  IF key.panic THEN [panic |-> TRUE, ok |-> FALSE]
                               ELSE IF ~ SecretKeyUnmarshal(key.raw)
                               THEN [panic |-> FALSE, ok |-> FALSE]
                               ELSE UnmarshalPatternsAndKeys(key.rest, i + 1,
                                                             length)

\* Delegation.Unmarshal
DelegationUnmarshal(marshalled) ==
    IF Len(marshalled) = 0 THEN [panic |-> TRUE, ok |-> FALSE]
    ELSE IF marshalled[1] # MarshalledTypeDelegation
    THEN [panic |-> FALSE, ok |-> FALSE]
    ELSE LET hierarchy == unmarshalPrefixWithLengthRaw(Drop(marshalled, 1))
         IN  IF hierarchy.panic THEN [panic |-> TRUE, ok |-> FALSE]
             ELSE LET params == unmarshalPrefixWithLengthRaw(hierarchy.rest)
                  IN  IF params.panic THEN [panic |-> TRUE, ok |-> FALSE]
                      ELSE IF ~ ParamsUnmarshal(params.raw)
                      THEN [panic |-> FALSE, ok |-> FALSE]
                      ELSE IF Len(params.rest) < MarshalledLengthLength
                      THEN [panic |-> TRUE, ok |-> FALSE]
                      ELSE UnmarshalPatternsAndKeys(
                               Drop(params.rest, MarshalledLengthLength), 0,
                               getLength(params.rest))

\* Delegation.Marshal of a delegation with the given patterns, a key to each.
RECURSIVE MarshalPatternsAndKeys(_, _, _)
MarshalPatternsAndKeys(patterns, i, buf) ==
    IF i > Len(patterns) THEN buf
    ELSE MarshalPatternsAndKeys(patterns, i + 1,
            marshalAppendWithLength(KeyBytes,
                marshalAppendWithLength(PatternMarshal(patterns[i]), buf)))

DelegationMarshal(hierarchy, patterns) ==
    MarshalPatternsAndKeys(patterns, 1,
        marshalAppendLength(Len(patterns),
            marshalAppendWithLength(ParamsBytes,
                marshalAppendWithLength(hierarchy,
                                        <<MarshalledTypeDelegation>>))))

\* Pattern.Unmarshal into a target: *p is assigned on success only.
UnmarshalInto(target, marshalled) ==
    LET r == PatternUnmarshal(marshalled)
    IN  [panic |-> r.panic, ok |-> r.ok,
         target |-> IF r.ok THEN r.pattern ELSE target]

\* The pattern a failed Unmarshal is to leave alone.
TargetPattern == <<<<98>>, << >>>>

\* The proper prefixes of an encoding.
Truncations(b) == {SubSeq(b, 1, n) : n \in 0..(Len(b) - 1)}

\* An encoding of a pattern with its declared length made one less, so that
\* the index of its last bound slot is not smaller than it.
Shortened(p) ==
    LET b == PatternMarshal(p)
    IN  <<b[1]>> \o Uint32Bytes(Len(p) - 1) \o Drop(b, 1 + MarshalledLengthLength)

\* Byte strings that are no encoding of a pattern: the empty one, encodings
\* with another type byte, encodings cut short, and encodings with a slot
\* index outside the declared length.
MalformedPatterns ==
    UNION {Truncations(PatternMarshal(p)) : p \in SmallPatterns}
    \cup {<<t>> \o Drop(PatternMarshal(p), 1) :
             t \in {MarshalledTypeInvalid, MarshalledTypeDelegation},
             p \in SmallPatterns}
    \cup {Shortened(p) : p \in {q \in SmallPatterns : OnePastLast(q) = Len(q)
                                                     /\ Len(q) > 0}}

SampleDelegations ==
    {DelegationMarshal(TestHierarchy, ps) :
        ps \in {<< >>, <<<<<<97>>>>>>, <<<<<<97>>, << >>>>, <<<< >>, <<98>>>>>>}}

\* Byte strings that are no encoding of a delegation.
MalformedDelegations ==
    UNION {Truncations(d) : d \in SampleDelegations}
    \cup {<<t>> \o Drop(d, 1) :
             t \in {MarshalledTypeInvalid, MarshalledTypePattern},
             d \in SampleDelegations}

InitMalformed ==
    /\ uriIn \in [pattern : MalformedPatterns, delegation : MalformedDelegations]
    /\ uriRes = NoResult
    /\ IdleTime /\ IdleDelegate /\ IdleClient

\* Pattern.Unmarshal and Delegation.Unmarshal, each on its byte string.
UnmarshalStep ==
    /\ ~ uriRes.done
    /\ uriRes' = [done |-> TRUE,
                  pattern |-> UnmarshalInto(TargetPattern, uriIn.pattern),
                  delegation |-> DelegationUnmarshal(uriIn.delegation)]
    /\ UNCHANGED <<uriIn, tvars, dvars, cvars>>

NextMalformed == UnmarshalStep

SpecMalformed == InitMalformed /\ [][NextMalformed]_vars

\* C29: on a byte string that is no encoding, Pattern.Unmarshal and
\* Delegation.Unmarshal return false and do not fault, and Pattern.Unmarshal
\* leaves its target as it was.
C29_RejectsAsValue ==
    uriRes.done =>
        /\ ~ uriRes.pattern.panic
        /\ ~ uriRes.pattern.ok
        /\ uriRes.pattern.target = TargetPattern
        /\ ~ uriRes.delegation.panic
        /\ ~ uriRes.delegation.ok

(***************************************************************************)
(* Every call returns: threads and lock grants scheduled fairly            *)
(***************************************************************************)
\* Calls on one URI at two hours, with and without a key in the store, and
\* DecryptWithPattern on bytes the library may refuse.
MaxFairOps == 2

FairEncryptCalls ==
    {[uri |-> URI_a, t |-> ClientTime1, msg |-> <<7>>],
     [uri |-> URI_a, t |-> ClientTime2, msg |-> <<7>>]}

FairDecryptInputs ==
    {[uri |-> URI_a, t |-> t, from |-> e.from, env |-> e.env] :
        t \in CallTimes, e \in Envelopes}

FairPatternCalls ==
    {c \in DecryptWithPatternCalls : LengthsValid(c.encKey, c.encMsg)}

CanStartFair(th) == pc[th] = "idle" /\ calls.started < MaxFairOps

FairEncrypt(th) == CanStartFair(th) /\ StartEncrypt(th, FairEncryptCalls)

FairDecrypt(th) == CanStartFair(th) /\ StartDecrypt(th, FairDecryptInputs)

FairDecryptWithPattern(th) ==
    CanStartFair(th) /\ StartDecryptWithPattern(th, FairPatternCalls)

\* entry.lock.RLock() and entry.lock.Lock(): the lock is granted.
Acquire(th) ==
    \/ EncryptRLock(th)
    \/ EncryptLock(th)
    \/ DecryptRLock(th)
    \/ DecryptLock(th)

\* Every other step of a call, the calls to the cache, the params reader and
\* the key store among them.
Proceed(th) ==
    \/ EncryptGetParams(th)
    \/ EncryptGetEntry(th)
    \/ EncryptRead(th)
    \/ EncryptWrite(th)
    \/ EncryptSeal(th)
    \/ DecryptGetEntry(th)
    \/ DecryptRead(th)
    \/ DecryptCheck(th)
    \/ DecryptKeyForPattern(th)
    \/ DecryptOpen(th)

NextFair ==
    \E th \in Threads :
        \/ FairEncrypt(th)
        \/ FairDecrypt(th)
        \/ FairDecryptWithPattern(th)
        \/ Acquire(th)
        \/ Proceed(th)
        \/ Return(th)

\* A thread that can go on does, the external calls return, and a thread
\* that could take its lock again and again gets it.
SpecFair ==
    /\ Init
    /\ [][NextFair]_vars
    /\ \A th \in Threads : WF_vars(Proceed(th)) /\ SF_vars(Acquire(th))

\* C30: a call that has returned, with or without an error, holds no entry
\* lock, and every call that was started returns.
C30_EveryCallReturns ==
    /\ \A th \in Threads : [](pc[th] \in {"idle", "done"} => LocksHeld(th) = {})
    /\ \A th \in Threads : (pc[th] # "idle") ~> (pc[th] = "done")

\* A Decrypt has returned an error from under the write lock of an entry
\* another call is waiting to write; the lock is free.
C30_Witness ==
    \E t1, t2 \in Threads :
        /\ t1 # t2
        /\ pc[t1] = "done" /\ loc[t1].err /\ calls.store >= 1
        /\ pc[t2] = "d_check"
        /\ op[t1].kind \in {"Decrypt", "DecryptWithPattern"}
        /\ OpKey(op[t1]) = OpKey(op[t2])
        /\ LocksHeld(t1) = {}
        /\ heap[loc[t2].ent].writer = t2
====
